---- MODULE Spec2Model ----
(***************************************************************************)
(* hsbench: the per-phase statistics engine (ThreadStats / Stats), the     *)
(* put/get/delete worker loops (runUpload / runDownload / runDelete) and   *)
(* the orchestrator                                                        *)
(* (runWrapper / main), modelled at the granularity of the atomic          *)
(* operations on the shared counters.                                      *)
(*                                                                         *)
(* Time is a discrete clock `now`; intervalNano and duration_secs are      *)
(* expressed in clock ticks.  Thread numbers are 0..threads-1 as in the    *)
(* source; the i-th interval record of a ledger (Go index i) is element    *)
(* i+1 of the TLA+ sequence.                                               *)
(***************************************************************************)
EXTENDS Integers, Sequences, FiniteSets, Bags, TLC

(* ---- bounds of the model ---- *)
threads == 2          \* -t : number of worker goroutines per phase
MaxTime == 2          \* clock ticks a phase may last
MaxOps == 4           \* index claims per phase while the duration bounds it
MaxFails == 3         \* failing operations the object store returns per phase
ObjCount == 2         \* -n when the user sets it
Duration == 1         \* -d when the user sets it
Width == 1            \* -ri when positive
object_size == 1      \* -z
bucket_count == 2     \* -b : number of buckets
max_keys == 1         \* -mk : keys per listing page
ObjsPerBucket == 2    \* keys a bucket can hold
MaxListErrs == 1      \* failing list calls the object store returns per phase
MaxSamples == 5       \* latency samples of one interval record
MaxLat == 3           \* largest latency of a sample
LedgerTime == 3       \* clock ticks the single ledger is followed for
MaxIntervals == 4     \* records the single ledger may grow to
MaxLedgerOps == 2     \* operations recorded in the single ledger
MaxIds == 2           \* identifiers one worker asks the generator for
LongTime == 3         \* clock ticks of a phase long enough to close two intervals

(* ---- program constants ---- *)
ErrLimit == 2         \* if errcnt > 2 { break }
loop_objects == FALSE \* -lo (default)

Threads == 0 .. (threads - 1)
ModeSeqs == { <<"g">>, <<"d">>, <<"p", "g">> }

VARIABLES
  modes, phase, opc, os,
  object_count, object_count_flag, duration_secs, op_counter,
  running_threads, endtime, now,
  mode, startNano, endNano, intervalNano, threadStats,
  intervalCompletions, completions,
  pc, errcnt, objnum, opStart, err, lat, barI,
  logged, requested, written, streak, strikes, stopErr, issued, fails,
  histOps, histBytes, histSlow, histLat,
  finishCalls, rtDecs, startCount, endWrites

\* the state of the benchmark phases (put / get / delete) and of the orchestrator
benchVars == << modes, phase, opc, os,
           object_count, object_count_flag, duration_secs, op_counter,
           running_threads, endtime, now,
           mode, startNano, endNano, intervalNano, threadStats,
           intervalCompletions, completions,
           pc, errcnt, objnum, opStart, err, lat, barI,
           logged, requested, written, streak, strikes, stopErr, issued, fails,
           histOps, histBytes, histSlow, histLat,
           finishCalls, rtDecs, startCount, endWrites >>

(* ---- state of the bucket-clear phase (runBucketsClear) ---- *)
VARIABLES
  listMu, listBucketComplete, listContinuationToken,
  store, cpc, cbucket, cout, listed, deleted, listErrs, store0

clearVars == << listMu, listBucketComplete, listContinuationToken,
                store, cpc, cbucket, cout, listed, deleted, listErrs, store0 >>

(* ---- state of the bucket-init phase (runBucketsInit) and of the process ---- *)
VARIABLES exited, bucketExists, ipc, ibucket, ierrs, outputWritten

initVars == << exited, bucketExists, ipc, ibucket, ierrs, outputWritten >>

(* ---- one IntervalStats record and the OutputStats computed from it ---- *)
VARIABLES sample, sampleNano, ostat

statVars == << sample, sampleNano, ostat >>

(* ---- one worker's ledger, driven call by call ---- *)
VARIABLES lts, lnow, lpc, lprev, lvotes, lsnap

ledgerVars == << lts, lnow, lpc, lprev, lvotes, lsnap >>

(* ---- the shared identifier generator of one phase ---- *)
VARIABLES seed, mu, drawn, upc, ui, buf, rank, locks, calls, issuedIds

uuidVars == << seed, mu, drawn, upc, ui, buf, rank, locks, calls, issuedIds >>

(* ---- the spawn loop of runWrapper ---- *)
VARIABLES spawned

spawnVars == << spawned >>

\* the state the put / get / delete phases never touch
subVars == << clearVars, initVars, statVars, ledgerVars, uuidVars, spawnVars >>

vars == << benchVars, subVars >>

orchVars == << modes, phase, opc, os, object_count, object_count_flag,
               duration_secs, endtime, mode, startNano, intervalNano, startCount >>

(* ---- sequence helpers ---- *)
RECURSIVE SumSeq(_)
SumSeq(s) == IF s = <<>> THEN 0 ELSE Head(s) + SumSeq(Tail(s))

RECURSIVE Flatten(_)
Flatten(ss) == IF ss = <<>> THEN <<>> ELSE Head(ss) \o Flatten(Tail(ss))

RECURSIVE Insert(_, _)
Insert(x, s) ==
  IF s = <<>> THEN <<x>>
  ELSE IF x < Head(s) THEN <<x>> \o s
  ELSE <<Head(s)>> \o Insert(x, Tail(s))

\* sort.Slice(tmpLat, func(i, j int) bool { return tmpLat[i] < tmpLat[j] })
RECURSIVE SortAsc(_)
SortAsc(s) == IF s = <<>> THEN <<>> ELSE Insert(Head(s), SortAsc(Tail(s)))

Count(s, v) == Cardinality({ k \in 1 .. Len(s) : s[k] = v })

Digit == << "0", "1", "2", "3", "4", "5", "6", "7", "8", "9" >>

\* strconv.FormatInt(n, 10)
RECURSIVE FormatInt(_)
FormatInt(n) ==
  IF n < 0 THEN "-" \o FormatInt(0 - n)
  ELSE IF n < 10 THEN Digit[n + 1]
  ELSE FormatInt(n \div 10) \o Digit[(n % 10) + 1]

(* ---- IntervalStats / OutputStats ---- *)
IntervalStats(name, bytes, slowdowns, latNano) ==
  [ name |-> name, bytes |-> bytes, slowdowns |-> slowdowns, latNano |-> latNano ]

\* the zero value OutputStats{}
OutputStatsZero == [ IntervalName |-> "", Ops |-> 0, Slowdowns |-> 0 ]

\* func (is *IntervalStats) makeOutputStats() OutputStats
IntervalStats_makeOutputStats(is) ==
  [ IntervalName |-> is.name, Ops |-> Len(is.latNano), Slowdowns |-> is.slowdowns ]

(* ---- ThreadStats ---- *)
\* func makeThreadStats
makeThreadStats ==
  [ curInterval |-> 0, intervals |-> << IntervalStats("0", 0, 0, <<>>) >> ]

\* the loop of ThreadStats.updateIntervals: the index it stops at
RECURSIVE Advance(_, _, _, _)
Advance(start, width, k, t) ==
  IF start + width * (k + 1) < t THEN Advance(start, width, k + 1, t) ELSE k

\* func (ts *ThreadStats) updateIntervals
ThreadStats_updateIntervals(ts, t) ==
  IF intervalNano < 0 THEN ts
  ELSE LET k == Advance(startNano, intervalNano, ts.curInterval, t)
       IN [ curInterval |-> k,
            intervals |-> ts.intervals \o
               [ j \in 1 .. (k - ts.curInterval) |->
                   IntervalStats(FormatInt(ts.curInterval + j), 0, 0, <<>>) ] ]

\* func (ts *ThreadStats) finish
ThreadStats_finish(ts) == [ ts EXCEPT !.curInterval = -1 ]

(* ---- Stats ---- *)
\* stats.intervalCompletions.Load(i) followed by atomic.LoadInt32
LoadCount(i) == IF i \in DOMAIN intervalCompletions THEN intervalCompletions[i] ELSE 0

\* the records stats.threadStats[t].intervals[i], t = 0 .. threads-1 (lines 365-375)
RecordsAt(i) == [ k \in 1 .. threads |-> threadStats[k - 1].intervals[i + 1] ]

\* a readiness test that also refuses a full counter (count <= threads)
makeOutputStats_refuse(i) ==
  IF intervalNano < 0 \/ i < 0 THEN [ ok |-> FALSE, o |-> OutputStatsZero ]
  ELSE IF i \notin DOMAIN intervalCompletions THEN [ ok |-> FALSE, o |-> OutputStatsZero ]
  ELSE IF intervalCompletions[i] <= threads THEN [ ok |-> FALSE, o |-> OutputStatsZero ]
  ELSE [ ok |-> TRUE, o |-> OutputStatsZero ]

\* func (stats *Stats) makeOutputStats(i int64) (OutputStats, bool)
makeOutputStats(i) ==
  IF intervalNano < 0 \/ i < 0 THEN [ ok |-> FALSE, o |-> OutputStatsZero ]
  ELSE IF i \notin DOMAIN intervalCompletions THEN [ ok |-> FALSE, o |-> OutputStatsZero ]
  ELSE IF intervalCompletions[i] < threads THEN [ ok |-> FALSE, o |-> OutputStatsZero ]
  ELSE LET recs == RecordsAt(i)
           is == IntervalStats(FormatInt(i),
                   SumSeq([ k \in 1 .. threads |-> recs[k].bytes ]),
                   SumSeq([ k \in 1 .. threads |-> recs[k].slowdowns ]),
                   SortAsc(Flatten([ k \in 1 .. threads |-> recs[k].latNano ])))
       IN [ ok |-> TRUE, o |-> IntervalStats_makeOutputStats(is) ]

\* a total that stops before each ledger's last record (i < len(intervals)-1)
AllRecords_skipLast ==
  Flatten([ k \in 1 .. threads |->
     SubSeq(threadStats[k - 1].intervals, 1, Len(threadStats[k - 1].intervals) - 1) ])

\* every record of every ledger, thread by thread, interval by interval (lines 393-407)
AllRecords == Flatten([ k \in 1 .. threads |-> threadStats[k - 1].intervals ])

\* the IntervalStats that makeTotalStats builds at line 409
TotalIntervalStats ==
  LET recs == AllRecords
  IN IntervalStats("TOTAL",
       SumSeq([ k \in 1 .. Len(recs) |-> recs[k].bytes ]),
       SumSeq([ k \in 1 .. Len(recs) |-> recs[k].slowdowns ]),
       SortAsc(Flatten([ k \in 1 .. Len(recs) |-> recs[k].latNano ])))

\* a total that is handed out one finished worker early
makeTotalStats_early ==
  IF completions < threads - 1 THEN [ ok |-> FALSE, o |-> OutputStatsZero ]
  ELSE [ ok |-> TRUE, o |-> IntervalStats_makeOutputStats(TotalIntervalStats) ]

\* func (stats *Stats) makeTotalStats() (OutputStats, bool)
makeTotalStats ==
  IF completions < threads THEN [ ok |-> FALSE, o |-> OutputStatsZero ]
  ELSE [ ok |-> TRUE, o |-> IntervalStats_makeOutputStats(TotalIntervalStats) ]

\* func (stats *Stats) addOp
addOp(ts, bytes, latNano) ==
  LET cur == ts.curInterval
  IN IF cur < 0 THEN ts
     ELSE [ ts EXCEPT !.intervals[cur + 1].bytes = @ + bytes,
                      !.intervals[cur + 1].latNano = Append(@, latNano) ]

\* a slowdown that is counted twice
addSlowDown_twice(ts) ==
  [ ts EXCEPT !.intervals[ts.curInterval + 1].slowdowns = @ + 2 ]

\* func (stats *Stats) addSlowDown
addSlowDown(ts) ==
  [ ts EXCEPT !.intervals[ts.curInterval + 1].slowdowns = @ + 1 ]

\* a drain loop that stops after its first row
Drain_one(i) ==
  LET r == makeOutputStats(i)
  IN IF r.ok THEN << r.o >> ELSE << >>

\* the runWrapper drain loop, lines 854-861
RECURSIVE Drain(_)
Drain(i) ==
  LET r == makeOutputStats(i)
  IN IF r.ok THEN << r.o >> \o Drain(i + 1) ELSE << >>

(* ---- conditions of the worker loops and of runWrapper ---- *)
\* a barrier that fires on the first arrival instead of the last
BarrierFull_first(count) == count = 1

\* line 433: if count == int32(stats.threads)
BarrierFull(count) == count = threads

\* a vote loop that runs up to and including the new current interval
VoteEnd_inclusive(newInterval) == newInterval + 1

\* line 423: for i := curInterval; i < newInterval; i++
VoteEnd(newInterval) == newInterval

\* a vote loop that starts over at interval 0 on every call
VoteStart_zero(curInterval) == 0

\* line 423: for i := curInterval; i < newInterval; i++
VoteStart(curInterval) == curInterval

\* an overshoot test that lets index object_count through
Overshoot_late(n) == object_count > -1 /\ n > object_count

\* lines 477, 531: if object_count > -1 && objnum >= object_count
Overshoot(n) == object_count > -1 /\ n >= object_count

\* an error count that a success resets
NextErrcnt_reset(e, failed) == IF failed THEN e + 1 ELSE 0

\* lines 502-510, 554-563: errcnt++ on an error, untouched on a success
NextErrcnt(e, failed) == IF failed THEN e + 1 ELSE e

\* a limit that lets a fourth failure through
StrikeOut_late(e) == e > ErrLimit + 1

\* lines 511, 564: if errcnt > 2 { break }
StrikeOut(e) == e > ErrLimit

\* a pin one above the code's
PinnedCount_plusOne == op_counter + 2

\* line 849: object_count = op_counter + 1
PinnedCount == op_counter + 1

\* a put phase that keeps the pin of an earlier one
ClearsPin_never(r) == FALSE

\* line 789: if r == 'p' && object_count_flag
ClearsPin(r) == r = "p" /\ object_count_flag

\* a wait that ends with the first worker that is done
Waiting_first(rt) == rt >= threads

\* line 842: for atomic.LoadInt64(&running_threads) > 0
Waiting(rt) == rt > 0

\* lines 472, 523: if duration_secs > -1 && time.Now().After(endtime)
TimeUp == duration_secs > -1 /\ now > endtime

(* ---- initial state ---- *)
Buckets == 0 .. (bucket_count - 1)

Keys == 1 .. ObjsPerBucket

\* a nil continuation token; the token after a page is the last key of the page
NoToken == 0

\* listMu is not held
NoHolder == -1

\* lines 964-965 and the zero value of listMu: no token, no bucket exhausted
ClearGlobals ==
  /\ listMu = NoHolder
  /\ listBucketComplete = [ b \in Buckets |-> FALSE ]
  /\ listContinuationToken = [ b \in Buckets |-> NoToken ]
  /\ cpc = [ t \in Threads |-> "idle" ]
  /\ cbucket = [ t \in Threads |-> 0 ]
  /\ cout = [ t \in Threads |-> << >> ]
  /\ listed = EmptyBag /\ deleted = EmptyBag /\ listErrs = 0

\* the put / get / delete phases run against buckets the model does not look into
ClearIdle ==
  /\ ClearGlobals
  /\ store = [ b \in Buckets |-> { } ]
  /\ store0 = [ b \in Buckets |-> { } ]

\* the process is running, no bucket-init worker exists, main has written no output
BucketInitGlobals ==
  /\ exited = FALSE
  /\ ipc = [ t \in Threads |-> "idle" ]
  /\ ibucket = [ t \in Threads |-> 0 ]
  /\ ierrs = EmptyBag
  /\ outputWritten = FALSE

BucketInitIdle == BucketInitGlobals /\ bucketExists = { }

\* no record is under computation
StatIdle == sample = << >> /\ sampleNano = 0 /\ ostat = << >>

\* the single ledger as makeThreadStats leaves it, no call in progress
LedgerGlobals ==
  /\ lts = makeThreadStats
  /\ lnow = 0
  /\ lpc = "idle"
  /\ lprev = 0
  /\ lvotes = 0
  /\ lsnap = << >>

LedgerIdle == LedgerGlobals

\* uuid.go line 24: var buf [16]byte
BufLen == 16

ZeroBuf == [ j \in 1 .. BufLen |-> 0 ]

\* uuid.go lines 17-21: a generator nothing has been drawn from, its lock free
UuidGlobals ==
  /\ mu = NoHolder
  /\ drawn = 0
  /\ upc = [ t \in Threads |-> "idle" ]
  /\ ui = [ t \in Threads |-> 0 ]
  /\ buf = [ t \in Threads |-> ZeroBuf ]
  /\ rank = [ t \in Threads |-> 0 ]
  /\ locks = 0
  /\ calls = [ t \in Threads |-> 0 ]
  /\ issuedIds = { }

UuidIdle == UuidGlobals /\ seed = 0

\* no worker of the running phase has been spawned one by one
SpawnIdle == spawned = 0

SubIdle == ClearIdle /\ BucketInitIdle /\ StatIdle /\ LedgerIdle /\ UuidIdle /\ SpawnIdle

\* the globals before the first runWrapper call (Go zero values)
BenchGlobals ==
  /\ phase = 1 /\ opc = "start" /\ os = << >>
  /\ object_count_flag = FALSE
  /\ op_counter = 0 /\ running_threads = 0 /\ endtime = 0 /\ now = 0
  /\ mode = "" /\ startNano = 0 /\ endNano = 0
  /\ threadStats = [ t \in Threads |-> makeThreadStats ]
  /\ intervalCompletions = << >>
  /\ completions = 0
  /\ pc = [ t \in Threads |-> "idle" ]
  /\ errcnt = [ t \in Threads |-> 0 ]
  /\ objnum = [ t \in Threads |-> 0 ]
  /\ err = [ t \in Threads |-> FALSE ]
  /\ lat = [ t \in Threads |-> 0 ]
  /\ barI = [ t \in Threads |-> 0 ]
  /\ logged = << >>
  /\ requested = EmptyBag /\ written = { }
  /\ streak = [ t \in Threads |-> 0 ]
  /\ strikes = [ t \in Threads |-> 0 ]
  /\ histOps = 0 /\ histBytes = 0 /\ histSlow = 0 /\ histLat = EmptyBag
  /\ opStart = [ t \in Threads |-> 0 ]
  /\ stopErr = [ t \in Threads |-> FALSE ]
  /\ issued = 0 /\ fails = 0
  /\ finishCalls = [ t \in Threads |-> 0 ]
  /\ rtDecs = [ t \in Threads |-> 0 ]
  /\ startCount = 0
  /\ endWrites = 0

InitGlobals == BenchGlobals /\ SubIdle

\* the flags as init() accepts them (line 929 rejects two unlimited bounds)
Init ==
  /\ modes \in ModeSeqs
  /\ object_count \in { -1, ObjCount }
  /\ duration_secs \in { -1, Duration }
  /\ ~ (object_count < 0 /\ duration_secs < 0)
  /\ intervalNano \in { -1, Width }
  /\ InitGlobals

tallyVars == << streak, strikes, histOps, histBytes, histSlow, histLat >>

histVars == << logged, requested, written, stopErr, issued, fails,
              finishCalls, rtDecs, tallyVars, endWrites >>

\* lines 815-838: the mode string makeStats is given for r
ModeName(r) == IF r = "p" THEN "PUT" ELSE IF r = "g" THEN "GET" ELSE "DEL"

(* ---- Stats.updateIntervals, lines 414-440 ---- *)
\* lines 415-423: after the ledger has rolled from interval old to ledger ts, is there
\* a vote to cast?  A finished or unmoved ledger casts none.
NeedsVote(old, ts) == ~ (old < 0) /\ VoteStart(old) < VoteEnd(ts.curInterval)

\* line 423: i++ and the loop test
NextVote(t, votePc, afterPc) ==
  IF barI[t] + 1 < VoteEnd(threadStats[t].curInterval)
  THEN /\ pc' = [ pc EXCEPT ![t] = votePc ]
       /\ barI' = [ barI EXCEPT ![t] = barI[t] + 1 ]
  ELSE /\ pc' = [ pc EXCEPT ![t] = afterPc ]
       /\ barI' = [ barI EXCEPT ![t] = 0 ]

\* lines 425-433: LoadOrStore and atomic.AddInt32 on interval barI[t]'s counter
Vote(t) ==
  /\ pc[t] \in { "upd", "fupd" }
  /\ LET i == barI[t]
         count == LoadCount(i) + 1
         emitPc == IF pc[t] = "upd" THEN "emit" ELSE "femit"
         afterPc == IF pc[t] = "upd" THEN "record" ELSE "fin"
     IN /\ intervalCompletions' = (i :> count) @@ intervalCompletions
        /\ IF BarrierFull(count)
           THEN /\ pc' = [ pc EXCEPT ![t] = emitPc ]
                /\ barI' = barI
           ELSE NextVote(t, pc[t], afterPc)
  /\ UNCHANGED << orchVars, histVars, op_counter, running_threads, now, endNano,
                  threadStats, completions, errcnt, objnum, opStart, err, lat >>
  /\ UNCHANGED subVars

\* lines 434-436: if is, ok := stats.makeOutputStats(i); ok { is.log() }
Emit(t) ==
  /\ pc[t] \in { "emit", "femit" }
  /\ LET r == makeOutputStats(barI[t])
     IN logged' = IF r.ok THEN Append(logged, r.o) ELSE logged
  /\ IF pc[t] = "emit" THEN NextVote(t, "upd", "record") ELSE NextVote(t, "fupd", "fin")
  /\ UNCHANGED << orchVars, requested, written, stopErr, issued, fails, tallyVars,
                  finishCalls, rtDecs, op_counter, running_threads, now, endNano, endWrites,
                  threadStats, intervalCompletions, completions, errcnt, objnum, opStart, err, lat >>
  /\ UNCHANGED subVars

(* ---- runUpload / runDownload / runDelete, lines 468-620 ---- *)
\* lines 472-474, 523-525, 577-579: the duration has elapsed
Expire(t) ==
  /\ pc[t] = "loop"
  /\ TimeUp
  /\ pc' = [ pc EXCEPT ![t] = "finish" ]
  /\ UNCHANGED << orchVars, histVars, op_counter, running_threads, now, endNano,
                  threadStats, intervalCompletions, completions, errcnt, objnum, opStart, err,
                  lat, barI >>
  /\ UNCHANGED subVars

\* lines 475-480, 527-534, 581-585: claim the next index
Claim(t) ==
  /\ pc[t] = "loop"
  /\ ~ TimeUp
  /\ issued < MaxOps \/ duration_secs = -1
  /\ LET n == op_counter + 1
         m == IF mode = "GET" /\ loop_objects /\ duration_secs > -1
              THEN n % object_count ELSE n
     IN /\ op_counter' = n
        /\ objnum' = [ objnum EXCEPT ![t] = m ]
        /\ opStart' = [ opStart EXCEPT ![t] = IF Overshoot(m) THEN 0 ELSE now ]
        /\ pc' = [ pc EXCEPT ![t] = IF Overshoot(m) THEN "overshoot" ELSE "send" ]
  /\ issued' = issued + 1
  /\ UNCHANGED << orchVars, logged, requested, written, stopErr, fails, tallyVars,
                  finishCalls, rtDecs, running_threads, now, endNano, endWrites, threadStats,
                  intervalCompletions, completions, errcnt, err, lat, barI >>
  /\ UNCHANGED subVars

\* lines 478-479, 532-533: give the overshooting claim back and leave the loop
Undo(t) ==
  /\ pc[t] = "overshoot"
  /\ op_counter' = op_counter - 1
  /\ objnum' = [ objnum EXCEPT ![t] = 0 ]
  /\ pc' = [ pc EXCEPT ![t] = "finish" ]
  /\ UNCHANGED << orchVars, histVars, running_threads, now, endNano, threadStats,
                  intervalCompletions, completions, errcnt, opStart, err, lat, barI >>
  /\ UNCHANGED subVars

\* lines 502-513, 554-566: on ledger ts, record the outcome (failed, latency l) of
\* worker t's operation, give the index back after a failed put, test the error count
RecordOutcome(t, ts, failed, l) ==
  /\ LET e2 == NextErrcnt(errcnt[t], failed)
     IN /\ errcnt' = [ errcnt EXCEPT ![t] = e2 ]
        /\ stopErr' = [ stopErr EXCEPT ![t] = StrikeOut(e2) ]
        /\ pc' = [ pc EXCEPT ![t] = IF StrikeOut(e2) THEN "finish" ELSE "loop" ]
  /\ threadStats' = [ threadStats EXCEPT ![t] =
        IF failed THEN addSlowDown(ts) ELSE addOp(ts, object_size, l) ]
  /\ op_counter' = IF failed /\ mode = "PUT" THEN op_counter - 1 ELSE op_counter
  /\ written' = IF ~ failed /\ mode = "PUT" THEN written \cup { objnum[t] } ELSE written
  /\ streak' = [ streak EXCEPT ![t] = IF failed THEN @ + 1 ELSE 0 ]
  /\ strikes' = [ strikes EXCEPT ![t] = IF failed THEN @ + 1 ELSE @ ]
  /\ histOps' = IF failed THEN histOps ELSE histOps + 1
  /\ histBytes' = IF failed THEN histBytes ELSE histBytes + object_size
  /\ histSlow' = IF failed THEN histSlow + 1 ELSE histSlow
  /\ histLat' = IF failed THEN histLat ELSE histLat (+) SetToBag({ l })
  /\ err' = [ err EXCEPT ![t] = FALSE ]
  /\ lat' = [ lat EXCEPT ![t] = 0 ]
  /\ objnum' = [ objnum EXCEPT ![t] = 0 ]

\* lines 481-500, 536-552: the request returns (error or not) end - start after it
\* was sent, and stats.updateIntervals rolls the ledger.  When there is no vote to
\* cast, updateIntervals touches nothing shared and the recording of lines 502-513
\* belongs to the same step.
Send(t) ==
  /\ pc[t] = "send"
  /\ \E e \in BOOLEAN :
       LET old == threadStats[t].curInterval
           rolled == ThreadStats_updateIntervals(threadStats[t], now)
           l == IF e THEN 0 ELSE now - opStart[t]
       IN /\ e => fails < MaxFails
          /\ fails' = IF e THEN fails + 1 ELSE fails
          /\ IF NeedsVote(old, rolled)
             THEN /\ threadStats' = [ threadStats EXCEPT ![t] = rolled ]
                  /\ pc' = [ pc EXCEPT ![t] = "upd" ]
                  /\ barI' = [ barI EXCEPT ![t] = VoteStart(old) ]
                  /\ err' = [ err EXCEPT ![t] = e ]
                  /\ lat' = [ lat EXCEPT ![t] = l ]
                  /\ UNCHANGED << errcnt, stopErr, op_counter, written, tallyVars, objnum >>
             ELSE /\ RecordOutcome(t, rolled, e, l)
                  /\ barI' = barI
  /\ opStart' = [ opStart EXCEPT ![t] = 0 ]
  /\ requested' = IF mode = "PUT" THEN requested
                  ELSE requested (+) SetToBag({ objnum[t] })
  /\ UNCHANGED << orchVars, logged, issued, finishCalls, rtDecs, running_threads, now,
                  endNano, endWrites, intervalCompletions, completions >>
  /\ UNCHANGED subVars

\* lines 502-513, 554-566, reached after the votes of updateIntervals
Record(t) ==
  /\ pc[t] = "record"
  /\ RecordOutcome(t, threadStats[t], err[t], lat[t])
  /\ UNCHANGED << orchVars, logged, requested, issued, fails, finishCalls, rtDecs,
                  running_threads, now, endNano, endWrites, intervalCompletions,
                  completions, opStart, barI >>
  /\ UNCHANGED subVars

(* ---- Stats.finish, lines 459-466 ---- *)
\* an end time that every finishing worker writes
LastFinisher_every(count) == count >= 1

\* line 463: if count == int32(stats.threads)
LastFinisher(count) == count = threads

\* lines 461-465: ledger ts is finished, the finished-worker counter goes up and the
\* last worker latches the end time
FinishLedger(t, ts) ==
  /\ threadStats' = [ threadStats EXCEPT ![t] = ThreadStats_finish(ts) ]
  /\ completions' = completions + 1
  /\ endNano' = IF LastFinisher(completions + 1) THEN now ELSE endNano
  /\ endWrites' = IF LastFinisher(completions + 1) THEN endWrites + 1 ELSE endWrites
  /\ pc' = [ pc EXCEPT ![t] = "dec" ]

\* line 460: stats.updateIntervals(thread_num); with no vote to cast, lines 461-465
\* belong to the same step
Finish(t) ==
  /\ pc[t] = "finish"
  /\ finishCalls' = [ finishCalls EXCEPT ![t] = @ + 1 ]
  /\ LET old == threadStats[t].curInterval
         rolled == ThreadStats_updateIntervals(threadStats[t], now)
     IN IF NeedsVote(old, rolled)
        THEN /\ threadStats' = [ threadStats EXCEPT ![t] = rolled ]
             /\ pc' = [ pc EXCEPT ![t] = "fupd" ]
             /\ barI' = [ barI EXCEPT ![t] = VoteStart(old) ]
             /\ UNCHANGED << completions, endNano, endWrites >>
        ELSE /\ FinishLedger(t, rolled)
             /\ barI' = barI
  /\ UNCHANGED << orchVars, logged, requested, written, stopErr, issued, fails, tallyVars,
                  rtDecs, op_counter, running_threads, now,
                  intervalCompletions, errcnt, objnum, opStart, err, lat >>
  /\ UNCHANGED subVars

\* lines 461-465, reached after the votes of updateIntervals
Fin(t) ==
  /\ pc[t] = "fin"
  /\ FinishLedger(t, threadStats[t])
  /\ UNCHANGED << orchVars, logged, requested, written, stopErr, issued, fails,
                  finishCalls, rtDecs, tallyVars, op_counter, running_threads, now,
                  intervalCompletions, errcnt, objnum, opStart, err, lat, barI >>
  /\ UNCHANGED subVars

\* lines 516, 570: atomic.AddInt64(&running_threads, -1)
Dec(t) ==
  /\ pc[t] = "dec"
  /\ running_threads' = running_threads - 1
  /\ rtDecs' = [ rtDecs EXCEPT ![t] = @ + 1 ]
  /\ pc' = [ pc EXCEPT ![t] = "done" ]
  /\ UNCHANGED << orchVars, logged, requested, written, stopErr, issued, fails, tallyVars,
                  finishCalls, op_counter, now, endNano, endWrites, threadStats,
                  intervalCompletions, completions, errcnt, objnum, opStart, err, lat, barI >>
  /\ UNCHANGED subVars

(* ---- the clock, measured from the start of the running phase ---- *)
Tick ==
  /\ opc = "wait"
  /\ \E t \in Threads : pc[t] # "done"
  /\ now < startNano + MaxTime
  /\ now' = now + 1
  /\ UNCHANGED << orchVars, histVars, op_counter, running_threads, endNano, threadStats,
                  intervalCompletions, completions, pc, errcnt, objnum, opStart, err, lat, barI >>
  /\ UNCHANGED subVars

(* ---- runWrapper, lines 780-867 ---- *)
\* lines 781-839: reset the counters, clear the pin, makeStats, spawn the workers
Start ==
  /\ opc = "start"
  /\ phase <= Len(modes)
  /\ now' = 0
  /\ op_counter' = -1
  /\ running_threads' = threads
  /\ endtime' = now' + duration_secs
  /\ IF ClearsPin(modes[phase])
     THEN object_count' = -1 /\ object_count_flag' = FALSE
     ELSE UNCHANGED << object_count, object_count_flag >>
  /\ startCount' = object_count'
  /\ mode' = ModeName(modes[phase])
  /\ startNano' = now'
  /\ endNano' = 0
  /\ endWrites' = 0
  /\ threadStats' = [ t \in Threads |-> makeThreadStats ]
  /\ intervalCompletions' = << >>
  /\ completions' = 0
  /\ pc' = [ t \in Threads |-> "loop" ]
  /\ errcnt' = [ t \in Threads |-> 0 ]
  /\ logged' = << >>
  /\ requested' = EmptyBag
  /\ written' = IF modes[phase] = "p" THEN { } ELSE written
  /\ streak' = [ t \in Threads |-> 0 ]
  /\ strikes' = [ t \in Threads |-> 0 ]
  /\ histOps' = 0 /\ histBytes' = 0 /\ histSlow' = 0 /\ histLat' = EmptyBag
  /\ stopErr' = [ t \in Threads |-> FALSE ]
  /\ issued' = 0 /\ fails' = 0
  /\ finishCalls' = [ t \in Threads |-> 0 ]
  /\ rtDecs' = [ t \in Threads |-> 0 ]
  /\ os' = << >>
  /\ opc' = "wait"
  /\ UNCHANGED << modes, phase, duration_secs, intervalNano,
                  objnum, opStart, err, lat, barI >>
  /\ UNCHANGED subVars

\* lines 842-844: the poll on running_threads ends
WaitDone ==
  /\ opc = "wait"
  /\ ~ Waiting(running_threads)
  /\ opc' = "collect"
  /\ UNCHANGED << modes, phase, os, object_count, object_count_flag,
                  duration_secs, endtime, mode, startNano, intervalNano, startCount,
                  histVars, op_counter, running_threads, now, endNano, threadStats,
                  intervalCompletions, completions, pc, errcnt, objnum, opStart, err, lat, barI >>
  /\ UNCHANGED subVars

\* lines 846-866: pin the object count, drain the interval rows, add the TOTAL row
Collect ==
  /\ opc = "collect"
  /\ IF modes[phase] = "p" /\ object_count < 0
     THEN object_count' = PinnedCount /\ object_count_flag' = TRUE
     ELSE UNCHANGED << object_count, object_count_flag >>
  /\ LET tot == makeTotalStats
     IN os' = Drain(0) \o (IF tot.ok THEN << tot.o >> ELSE << >>)
  /\ phase' = phase + 1
  /\ opc' = IF phase + 1 > Len(modes) THEN "done" ELSE "start"
  /\ UNCHANGED << modes, duration_secs, endtime, mode, startNano, intervalNano,
                  startCount, histVars, op_counter, running_threads, now, endNano,
                  threadStats, intervalCompletions, completions, pc, errcnt, objnum,
                  opStart, err, lat, barI >>
  /\ UNCHANGED subVars

Next ==
  \/ Start
  \/ WaitDone
  \/ Collect
  \/ Tick
  \/ \E t \in Threads : Expire(t)
  \/ \E t \in Threads : Claim(t)
  \/ \E t \in Threads : Undo(t)
  \/ \E t \in Threads : Send(t)
  \/ \E t \in Threads : Vote(t)
  \/ \E t \in Threads : Emit(t)
  \/ \E t \in Threads : Record(t)
  \/ \E t \in Threads : Finish(t)
  \/ \E t \in Threads : Fin(t)
  \/ \E t \in Threads : Dec(t)

Spec == Init /\ [][Next]_vars

\* every step of worker t
Worker(t) ==
  \/ Expire(t) \/ Claim(t) \/ Undo(t) \/ Send(t) \/ Vote(t) \/ Emit(t)
  \/ Record(t) \/ Finish(t) \/ Fin(t) \/ Dec(t)

\* every goroutine is scheduled again and again, every request returns, the clock
\* advances, and the orchestrator's poll wakes up every millisecond
\* one put phase with both bounds set and interval reporting on
FairInit ==
  /\ modes = << "p" >>
  /\ object_count = ObjCount
  /\ duration_secs = Duration
  /\ intervalNano = Width
  /\ InitGlobals

FairSpec ==
  /\ FairInit /\ [][Next]_vars
  /\ \A t \in Threads : WF_vars(Worker(t))
  /\ WF_vars(Tick)
  /\ WF_vars(Start) /\ WF_vars(WaitDone) /\ WF_vars(Collect)

(***************************************************************************)
(* Properties                                                              *)
(***************************************************************************)
IntervalIdx == 0 .. (MaxTime + 1)

FinishPcs == { "finish", "fupd", "femit", "fin", "dec", "done" }

\* the number of log events the barrier has emitted for interval i
EmitCount(i) == Cardinality({ k \in 1 .. Len(logged) : logged[k].IntervalName = FormatInt(i) })

\* worker t has moved past interval i and has cast its vote for it
Voted(t, i) ==
  /\ Len(threadStats[t].intervals) > i + 1
  /\ ~ (pc[t] \in { "upd", "fupd" } /\ barI[t] <= i)
  /\ ~ (pc[t] \in { "emit", "femit" } /\ barI[t] < i)

\* some worker has brought interval i's counter to the worker count and is about to log
EmitPending(i) == \E t \in Threads : pc[t] \in { "emit", "femit" } /\ barI[t] = i

\* runWrapper has returned the output of the phase whose Stats are still in place
Collected == phase > 1 /\ opc \in { "start", "done" }

\* C1: for every interval index the aggregate-and-log event is emitted at most once,
\* and exactly once as soon as all workers have voted for it and the worker whose
\* increment filled the counter has run its emission; no other increment emits.
C1_EmitOnce ==
  \A i \in IntervalIdx :
    /\ EmitCount(i) <= 1
    /\ EmitCount(i) = 1 <=> ((\A t \in Threads : Voted(t, i)) /\ ~ EmitPending(i))
    /\ EmitCount(i) = 1 => LoadCount(i) = threads

C1_Witness ==
  \E i \in IntervalIdx : EmitCount(i) = 1 /\ LoadCount(i) = threads /\ logged[1].Ops > 0

\* C2: makeOutputStats(i) answers ok exactly when interval reporting is on, i >= 0 and
\* interval i's counter exists and equals the worker count, and then every ledger
\* holds a record at index i; otherwise it answers not-ready with the zero record.
C2_ReadyOnlyWhenFull ==
  \A i \in -1 .. (MaxTime + 1) :
    LET r == makeOutputStats(i)
    IN /\ r.ok <=> (/\ intervalNano >= 0
                    /\ i >= 0
                    /\ i \in DOMAIN intervalCompletions
                    /\ LoadCount(i) = threads)
       /\ r.ok => \A t \in Threads : Len(threadStats[t].intervals) > i
       /\ ~ r.ok => r.o = OutputStatsZero

C2_Witness ==
  /\ makeOutputStats(0).ok
  /\ makeOutputStats(0).o.Ops > 0
  /\ ~ makeOutputStats(1).ok

\* the records of interval i are closed: its counter has reached the worker count
Closed(i) == LoadCount(i) = threads

\* C3: once interval i's counter is full (the only states in which its aggregate is
\* computed) every ledger holds a record at index i and every worker's current
\* interval is beyond i or finished; from then on no step changes any record at
\* index i, and a ledger changes only in a step of its own worker.
C3_ClosedIsFrozen ==
  /\ [](\A i \in IntervalIdx : Closed(i) =>
          \A t \in Threads :
            /\ Len(threadStats[t].intervals) > i
            /\ threadStats[t].curInterval > i \/ threadStats[t].curInterval = -1)
  /\ [][opc # "start" =>
          /\ \A i \in IntervalIdx : Closed(i) =>
               \A t \in Threads :
                 threadStats'[t].intervals[i + 1] = threadStats[t].intervals[i + 1]
          /\ \A t \in Threads : threadStats'[t] # threadStats[t] =>
               /\ pc'[t] # pc[t]
               /\ \A u \in Threads \ { t } : pc'[u] = pc[u] /\ threadStats'[u] = threadStats[u]
     ]_vars

C3_Witness ==
  \E t \in Threads :
    /\ Closed(0)
    /\ Len(threadStats[t].intervals) > 1
    /\ threadStats[t].intervals[1].latNano # << >>
    /\ threadStats[t].intervals[2].latNano # << >>

SumOps(rows) == SumSeq([ k \in 1 .. Len(rows) |-> rows[k].Ops ])

AllFinished == \A t \in Threads : pc[t] \in { "dec", "done" }

\* C4: once all workers have finished, the TOTAL record's bytes, operation count and
\* slowdowns equal what the workers recorded over the whole phase, whatever interval
\* (closed or not) each operation fell into, and its latency samples are exactly the
\* recorded samples, each as often as it was recorded.
C4_TotalSumsEverything ==
  completions = threads =>
    LET is == TotalIntervalStats
        r == makeTotalStats
    IN /\ r.ok
       /\ r.o.IntervalName = "TOTAL"
       /\ is.bytes = histBytes
       /\ Len(is.latNano) = histOps
       /\ r.o.Ops = histOps
       /\ is.slowdowns = histSlow
       /\ r.o.Slowdowns = histSlow
       /\ \A v \in 0 .. (MaxTime + 1) : Count(is.latNano, v) = CopiesIn(v, histLat)

C4_Witness ==
  /\ completions = threads
  /\ histOps >= 2
  /\ histSlow >= 1
  /\ \E t \in Threads :
       /\ Len(threadStats[t].intervals) > 1
       /\ threadStats[t].intervals[Len(threadStats[t].intervals)].latNano # << >>
  /\ \E t \in Threads : threadStats[t].intervals[1].latNano # << >>

\* the rows of os before its last one
IntervalRows == SubSeq(os, 1, Len(os) - 1)

\* the operations recorded in ledger records that no interval row of os covers
UnclosedOps ==
  SumSeq([ k \in 1 .. threads |->
    SumSeq([ j \in 1 .. Len(threadStats[k - 1].intervals) |->
      IF j > Len(os) - 1 THEN Len(threadStats[k - 1].intervals[j].latNano) ELSE 0 ]) ])

\* C5 as stated: with interval reporting on and every operation succeeding, the
\* output of runWrapper ends with a TOTAL row whose Ops is the sum of the interval
\* rows' Ops.
C5_TotalIsSumOfRows ==
  (Collected /\ intervalNano >= 0 /\ histSlow = 0) =>
    /\ Len(os) >= 1
    /\ os[Len(os)].IntervalName = "TOTAL"
    /\ os[Len(os)].Ops = SumOps(IntervalRows)

\* C5 amended: with interval reporting on, the output of runWrapper ends with its one
\* TOTAL row, whose Ops is the sum of the interval rows' Ops plus the operations
\* recorded in intervals that never closed.
C5_TotalIsRowsPlusUnclosed ==
  (Collected /\ intervalNano >= 0) =>
    /\ Len(os) >= 1
    /\ os[Len(os)].IntervalName = "TOTAL"
    /\ \A k \in 1 .. (Len(os) - 1) : os[k].IntervalName = FormatInt(k - 1)
    /\ os[Len(os)].Ops = SumOps(IntervalRows) + UnclosedOps
    /\ os[Len(os)].Ops >= SumOps(IntervalRows)

C5_Witness ==
  /\ Collected /\ intervalNano >= 0 /\ histSlow = 0
  /\ Len(os) >= 2
  /\ SumOps(IntervalRows) > 0
  /\ os[Len(os)].Ops > SumOps(IntervalRows)

\* C6: makeTotalStats answers ok exactly in the states where every worker has been
\* through Stats.finish, and in particular in the state in which the orchestrator's
\* poll on running_threads has just ended.
C6_TotalReadyIffAllFinished ==
  /\ makeTotalStats.ok <=> AllFinished
  /\ ~ makeTotalStats.ok => makeTotalStats.o = OutputStatsZero
  /\ opc = "collect" => makeTotalStats.ok

C6_Witness == opc = "collect" /\ makeTotalStats.ok /\ makeTotalStats.o.Ops > 0

\* C7 as stated: a worker has left its loop because of failures exactly when its last
\* three operations failed in a row.
C7_StopsOnThreeInARow ==
  \A t \in Threads : stopErr[t] <=> streak[t] >= 3

\* C7 amended: a worker has left its loop because of failures exactly when three of
\* its operations in the phase have failed, in a row or not; it never has more.
C7_StopsOnThreeInTotal ==
  \A t \in Threads :
    /\ stopErr[t] <=> strikes[t] >= 3
    /\ strikes[t] <= 3
    /\ stopErr[t] => pc[t] \in FinishPcs

C7_Witness ==
  \E t \in Threads : stopErr[t] /\ streak[t] < 3 /\ pc[t] = "done"

\* C8: a worker with three failed operations issues no further operation, goes
\* through Stats.finish once and decrements running_threads once; running_threads
\* counts the workers that have not yet done so; and the orchestrator's wait ends.
C8_StruckOutWorkerLeaves ==
  /\ [](\A t \in Threads :
          /\ strikes[t] >= 3 => pc[t] \in FinishPcs
          /\ finishCalls[t] <= 1 /\ rtDecs[t] <= 1
          /\ pc[t] = "done" => (finishCalls[t] = 1 /\ rtDecs[t] = 1))
  /\ [](opc = "wait" =>
          running_threads = Cardinality({ t \in Threads : pc[t] # "done" }))
  /\ ((opc = "wait" /\ \E t \in Threads : stopErr[t]) ~> opc = "collect")

C8_Witness ==
  \E t, u \in Threads :
    /\ t # u
    /\ stopErr[t] /\ pc[t] = "done"
    /\ ~ stopErr[u] /\ pc[u] = "send"

\* C9: in a get phase with the object count N set, unlimited duration and no failed
\* operation, no index is requested twice, no index outside 0..N-1 is requested, and
\* when all workers have left their loops every index 0..N-1 has been requested.
C9_EachIndexOnce ==
  (mode = "GET" /\ object_count > -1 /\ duration_secs = -1 /\ fails = 0
     /\ opc \in { "wait", "collect" }) =>
    /\ \A i \in BagToSet(requested) : i \in 0 .. (object_count - 1)
    /\ \A i \in BagToSet(requested) : CopiesIn(i, requested) = 1
    /\ (\A t \in Threads : pc[t] \in FinishPcs) =>
         BagToSet(requested) = 0 .. (object_count - 1)

C9_Witness ==
  /\ mode = "GET" /\ object_count > 1 /\ duration_secs = -1 /\ fails = 0
  /\ opc = "collect"
  /\ BagToSet(requested) = 0 .. (object_count - 1)
  /\ \A t \in Threads : threadStats[t].intervals[1].latNano # << >>

\* runWrapper has returned from a put phase that began with the object count unset
PutPinned == Collected /\ mode = "PUT" /\ startCount = -1

\* C10 as stated: after such a put phase the object count is the number of objects
\* written in the phase plus one.
C10_PinIsWrittenPlusOne ==
  PutPinned => object_count = histOps + 1

\* C10 amended: after such a put phase the object count is op_counter + 1, which is
\* the number of put operations of the phase that succeeded, and the pin flag is set.
C10_PinIsWritten ==
  PutPinned =>
    /\ object_count = op_counter + 1
    /\ object_count = histOps
    /\ object_count >= Cardinality(written)
    /\ object_count_flag

C10_Witness ==
  PutPinned /\ object_count >= 2 /\ histSlow >= 1

\* C11: in a get or delete phase that follows a put phase which pinned the object
\* count, every index requested is an index some put of that put phase wrote.
C11_RequestsOnlyWritten ==
  (mode # "PUT" /\ phase = 2 /\ object_count_flag /\ opc \in { "wait", "collect" }) =>
    \A i \in BagToSet(requested) : i \in written

(***************************************************************************)
(* The bucket-clear phase: runBucketsClear, lines 710-778, under the        *)
(* orchestrator of runWrapper.  Interval reporting is off (-ri negative).  *)
(***************************************************************************)
RECURSIVE FirstKeys(_, _)
\* the n smallest keys of the set ks, in ascending order
FirstKeys(ks, n) ==
  IF n = 0 \/ ks = { } THEN << >>
  ELSE LET k == CHOOSE x \in ks : \A y \in ks : x <= y
       IN << k >> \o FirstKeys(ks \ { k }, n - 1)

\* svc.ListObjectsV2 on bucket b from token tok: up to max_keys keys after the token,
\* and the next token, nil when no key is left after the page
ListObjectsV2(b, tok) ==
  LET rem == { k \in store[b] : k > tok }
      page == FirstKeys(rem, max_keys)
  IN [ Contents |-> page,
       NextContinuationToken |->
         IF Cardinality(rem) > max_keys THEN page[Len(page)] ELSE NoToken ]

\* line 713: bucket_num := (thread_num + current_bucket) % bucket_count
BucketNum(t) == (t + cbucket[t]) % bucket_count

\* a lock that is kept until the page has been deleted
HolderAfterList_keep(t) == t

\* lines 736, 771: listMu.Unlock() once the token and the flag are updated
HolderAfterList(t) == NoHolder

\* lines 735, 770: listContinuationToken[bucket_num] = out.NextContinuationToken
TokenAfterList(b, next) == next

\* line 712: the next iteration of the loop over the buckets, or its end
NextBucket(t) ==
  /\ cbucket' = [ cbucket EXCEPT ![t] = @ + 1 ]
  /\ cpc' = [ cpc EXCEPT ![t] = IF cbucket[t] + 1 < bucket_count THEN "lock1" ELSE "finish" ]

clearBench == << modes, phase, opc, os, object_count, object_count_flag, duration_secs,
                 op_counter, endtime, now, mode, startNano, intervalNano,
                 intervalCompletions, pc, errcnt, objnum, opStart, err, lat, barI,
                 histVars, startCount, initVars, statVars, ledgerVars, uuidVars, spawnVars >>

\* lines 715-720: take the lock; an exhausted bucket ends the worker's loop, otherwise
\* the list call is sent with the lock held
CLock1(t) ==
  /\ cpc[t] = "lock1"
  /\ listMu = NoHolder
  /\ IF listBucketComplete[BucketNum(t)]
     THEN /\ cpc' = [ cpc EXCEPT ![t] = "finish" ]
          /\ listMu' = NoHolder
     ELSE /\ cpc' = [ cpc EXCEPT ![t] = "list1" ]
          /\ listMu' = t
  /\ UNCHANGED << clearBench, running_threads, endNano, threadStats, completions,
                  listBucketComplete, listContinuationToken, store, store0, cbucket, cout,
                  listed, deleted, listErrs >>

\* lines 726-735, 761-770: the answer of a list call updates the flag and the token
ListAnswer(t, out) ==
  LET b == BucketNum(t)
  IN /\ listBucketComplete' =
          [ listBucketComplete EXCEPT ![b] = @ \/ out.NextContinuationToken = NoToken ]
     /\ listContinuationToken' =
          [ listContinuationToken EXCEPT ![b] = TokenAfterList(b, out.NextContinuationToken) ]
     /\ listMu' = HolderAfterList(t)
     /\ cout' = [ cout EXCEPT ![t] = out.Contents ]
     /\ listed' = listed (+) SetToBag({ << b, listContinuationToken[b] >> })

\* lines 721-737: the first list call of a bucket returns; an error ends the worker's loop
CList1(t) ==
  /\ cpc[t] = "list1"
  /\ \E e \in BOOLEAN :
       /\ e => listErrs < MaxListErrs
       /\ IF e
          THEN /\ listMu' = NoHolder
               /\ cpc' = [ cpc EXCEPT ![t] = "finish" ]
               /\ listErrs' = listErrs + 1
               /\ UNCHANGED << listBucketComplete, listContinuationToken, cout, listed, cbucket >>
          ELSE LET out == ListObjectsV2(BucketNum(t), listContinuationToken[BucketNum(t)])
               IN /\ ListAnswer(t, out)
                  /\ listErrs' = listErrs
                  /\ IF Len(out.Contents) > 0
                     THEN cpc' = [ cpc EXCEPT ![t] = "del" ] /\ cbucket' = cbucket
                     ELSE NextBucket(t)
  /\ UNCHANGED << clearBench, running_threads, endNano, threadStats, completions,
                  store, store0, deleted >>

\* lines 740-749: delete the next object of the page and record the operation
CDelete(t) ==
  /\ cpc[t] = "del"
  /\ LET k == Head(cout[t])
         b == BucketNum(t)
     IN /\ store' = [ store EXCEPT ![b] = @ \ { k } ]
        /\ deleted' = deleted (+) SetToBag({ << b, k >> })
        /\ threadStats' = [ threadStats EXCEPT ![t] =
              addOp(ThreadStats_updateIntervals(threadStats[t], now), object_size, 0) ]
  /\ cout' = [ cout EXCEPT ![t] = Tail(@) ]
  /\ cpc' = [ cpc EXCEPT ![t] = IF Len(cout[t]) > 1 THEN "del" ELSE "lock2" ]
  /\ UNCHANGED << clearBench, running_threads, endNano, completions,
                  listMu, listBucketComplete, listContinuationToken, cbucket, listed, listErrs,
                  store0 >>

\* lines 750-755: take the lock again; an exhausted bucket ends the page loop
CLock2(t) ==
  /\ cpc[t] = "lock2"
  /\ listMu = NoHolder
  /\ IF listBucketComplete[BucketNum(t)]
     THEN /\ NextBucket(t)
          /\ listMu' = NoHolder
     ELSE /\ cpc' = [ cpc EXCEPT ![t] = "list2" ]
          /\ cbucket' = cbucket
          /\ listMu' = t
  /\ UNCHANGED << clearBench, running_threads, endNano, threadStats, completions,
                  listBucketComplete, listContinuationToken, store, store0, cout,
                  listed, deleted, listErrs >>

\* lines 756-772: a later list call of the bucket returns; an error ends the page loop
CList2(t) ==
  /\ cpc[t] = "list2"
  /\ \E e \in BOOLEAN :
       /\ e => listErrs < MaxListErrs
       /\ IF e
          THEN /\ listMu' = NoHolder
               /\ NextBucket(t)
               /\ listErrs' = listErrs + 1
               /\ UNCHANGED << listBucketComplete, listContinuationToken, cout, listed >>
          ELSE LET out == ListObjectsV2(BucketNum(t), listContinuationToken[BucketNum(t)])
               IN /\ ListAnswer(t, out)
                  /\ listErrs' = listErrs
                  /\ IF Len(out.Contents) > 0
                     THEN cpc' = [ cpc EXCEPT ![t] = "del" ] /\ cbucket' = cbucket
                     ELSE NextBucket(t)
  /\ UNCHANGED << clearBench, running_threads, endNano, threadStats, completions,
                  store, store0, deleted >>

\* line 775: stats.finish(thread_num)
CFinish(t) ==
  /\ cpc[t] = "finish"
  /\ threadStats' = [ threadStats EXCEPT ![t] =
        ThreadStats_finish(ThreadStats_updateIntervals(threadStats[t], now)) ]
  /\ completions' = completions + 1
  /\ endNano' = IF completions + 1 = threads THEN now ELSE endNano
  /\ cpc' = [ cpc EXCEPT ![t] = "dec" ]
  /\ UNCHANGED << clearBench, running_threads, listMu, listBucketComplete,
                  listContinuationToken, store, store0, cbucket, cout, listed, deleted,
                  listErrs >>

\* line 776: atomic.AddInt64(&running_threads, -1)
CDec(t) ==
  /\ cpc[t] = "dec"
  /\ running_threads' = running_threads - 1
  /\ cpc' = [ cpc EXCEPT ![t] = "done" ]
  /\ UNCHANGED << clearBench, endNano, threadStats, completions, listMu,
                  listBucketComplete, listContinuationToken, store, store0, cbucket, cout,
                  listed, deleted, listErrs >>

\* lines 781-802 for r = 'c': reset the counters, makeStats, spawn the workers; the
\* pagination state of lines 964-965 is not touched
CStart ==
  /\ opc = "start"
  /\ phase <= Len(modes)
  /\ modes[phase] = "c"
  /\ op_counter' = -1
  /\ running_threads' = threads
  /\ endtime' = now + duration_secs
  /\ mode' = "BCLR"
  /\ startNano' = now
  /\ endNano' = 0
  /\ threadStats' = [ t \in Threads |-> makeThreadStats ]
  /\ intervalCompletions' = << >>
  /\ completions' = 0
  /\ cpc' = [ t \in Threads |-> IF bucket_count > 0 THEN "lock1" ELSE "finish" ]
  /\ cbucket' = [ t \in Threads |-> 0 ]
  /\ cout' = [ t \in Threads |-> << >> ]
  /\ listed' = EmptyBag /\ deleted' = EmptyBag /\ listErrs' = 0
  /\ os' = << >>
  /\ opc' = "wait"
  /\ UNCHANGED << modes, phase, object_count, object_count_flag, duration_secs, now,
                  intervalNano, pc, errcnt, objnum, opStart, err, lat, barI, histVars,
                  startCount, listMu, listBucketComplete, listContinuationToken, store >>
  /\ store0' = store
  /\ UNCHANGED << initVars, statVars, ledgerVars, uuidVars, spawnVars >>

\* lines 842-844: the poll on running_threads ends
CWaitDone ==
  /\ opc = "wait"
  /\ ~ (running_threads > 0)
  /\ opc' = "collect"
  /\ UNCHANGED << modes, phase, os, object_count, object_count_flag, duration_secs,
                  op_counter, endtime, now, mode, startNano, intervalNano,
                  intervalCompletions, pc, errcnt, objnum, opStart, err, lat, barI,
                  histVars, startCount, running_threads, endNano, threadStats,
                  completions, clearVars >>
  /\ UNCHANGED << initVars, statVars, ledgerVars, uuidVars, spawnVars >>

\* lines 853-866: the rows of the phase
CCollect ==
  /\ opc = "collect"
  /\ LET tot == makeTotalStats
     IN os' = Drain(0) \o (IF tot.ok THEN << tot.o >> ELSE << >>)
  /\ phase' = phase + 1
  /\ opc' = IF phase + 1 > Len(modes) THEN "done" ELSE "start"
  /\ UNCHANGED << modes, object_count, object_count_flag, duration_secs,
                  op_counter, endtime, now, mode, startNano, intervalNano,
                  intervalCompletions, pc, errcnt, objnum, opStart, err, lat, barI,
                  histVars, startCount, running_threads, endNano, threadStats,
                  completions, clearVars >>
  /\ UNCHANGED << initVars, statVars, ledgerVars, uuidVars, spawnVars >>

\* a put phase between two clear phases, as a whole: it leaves objects in the buckets
PutPhase ==
  /\ opc = "start"
  /\ phase <= Len(modes)
  /\ modes[phase] = "p"
  /\ \E full \in SUBSET Buckets :
       /\ full # { }
       /\ store' = [ b \in Buckets |-> IF b \in full THEN Keys ELSE store[b] ]
  /\ phase' = phase + 1
  /\ UNCHANGED << modes, opc, os, object_count, object_count_flag, duration_secs,
                  op_counter, endtime, now, mode, startNano, intervalNano,
                  intervalCompletions, pc, errcnt, objnum, opStart, err, lat, barI,
                  histVars, startCount, running_threads, endNano, threadStats,
                  completions, listMu, listBucketComplete, listContinuationToken,
                  cpc, cbucket, cout, listed, deleted, listErrs, store0 >>
  /\ UNCHANGED << initVars, statVars, ledgerVars, uuidVars, spawnVars >>

\* -m cpc -ri -1: whatever the buckets hold when the process starts
ClearInit ==
  /\ modes = << "c", "p", "c" >>
  /\ object_count = ObjCount
  /\ duration_secs = Duration
  /\ intervalNano = -1
  /\ BenchGlobals
  /\ ClearGlobals
  /\ BucketInitIdle
  /\ StatIdle
  /\ LedgerIdle
  /\ UuidIdle
  /\ SpawnIdle
  /\ store \in [ Buckets -> SUBSET Keys ]
  /\ store0 = [ b \in Buckets |-> { } ]

ClearNext ==
  \/ CStart
  \/ CWaitDone
  \/ CCollect
  \/ PutPhase
  \/ \E t \in Threads : CLock1(t)
  \/ \E t \in Threads : CList1(t)
  \/ \E t \in Threads : CDelete(t)
  \/ \E t \in Threads : CLock2(t)
  \/ \E t \in Threads : CList2(t)
  \/ \E t \in Threads : CFinish(t)
  \/ \E t \in Threads : CDec(t)

ClearSpec == ClearInit /\ [][ClearNext]_vars

(* ---- properties of the bucket-clear phase ---- *)
\* runWrapper has just returned from a clear phase
ClearedNow == opc \in { "start", "done" } /\ phase > 1 /\ modes[phase - 1] = "c"

\* the number of pages the n keys of a bucket are split into
PagesOf(n) == IF n = 0 THEN 1 ELSE (n + max_keys - 1) \div max_keys

\* the number of list calls answered for bucket b in the running phase
ListedOf(b) ==
  Cardinality({ tok \in 0 .. ObjsPerBucket : BagIn(<< b, tok >>, listed) })

\* the number of delete calls made for bucket b in the running phase
DeletedOf(b) ==
  SumSeq([ k \in 1 .. ObjsPerBucket |-> CopiesIn(<< b, k >>, deleted) ])

\* no listing (bucket, token) is answered twice in a phase, no object is deleted twice,
\* and a list call is only ever in flight for a bucket that is not marked exhausted
NoPageTwice ==
  /\ \A e \in BagToSet(listed) : CopiesIn(e, listed) = 1
  /\ \A e \in BagToSet(deleted) : CopiesIn(e, deleted) = 1
  /\ \A t \in Threads :
       cpc[t] \in { "list1", "list2" } => ~ listBucketComplete[BucketNum(t)]

\* every page of every bucket has been listed and every object the bucket held when
\* the phase began has been deleted
AllPagesDone ==
  \A b \in Buckets :
    /\ ListedOf(b) = PagesOf(Cardinality(store0[b]))
    /\ DeletedOf(b) = Cardinality(store0[b])

\* C12: during a bucket-clear phase no page is listed twice and no bucket is listed
\* after it is marked exhausted; when the phase has ended without a listing error,
\* each page of each bucket has been listed exactly once and the number of objects
\* deleted from each bucket is the number it held.
C12_EachPageOnce ==
  /\ NoPageTwice
  /\ (ClearedNow /\ listErrs = 0) => AllPagesDone

\* the same for the first clear phase of the process only
C12_FirstClearEachPageOnce ==
  /\ NoPageTwice
  /\ (ClearedNow /\ phase = 2 /\ listErrs = 0) => AllPagesDone

\* C13: every clear phase that has ended without a listing error has left every bucket
\* empty, the first clear phase of the process and every later one.
C13_EveryClearDrains ==
  (ClearedNow /\ listErrs = 0) => \A b \in Buckets : store[b] = { }

\* the same for the first clear phase of the process only
C13_FirstClearDrains ==
  (ClearedNow /\ phase = 2 /\ listErrs = 0) => \A b \in Buckets : store[b] = { }

\* C14 as stated: no list call and no delete call is in progress while a worker holds
\* the pagination lock.
C14_NoCallUnderLock ==
  \A t \in Threads : listMu = t => cpc[t] \notin { "list1", "list2", "del" }

\* C14 amended: a worker holds the pagination lock exactly while its list call is in
\* flight (from the check of the exhausted flag to the update of the token and the
\* flag); it never holds it while it deletes objects, and while a list call is in
\* flight no other worker can take the lock.
C14_LockCoversListOnly ==
  /\ listMu \in Threads \cup { NoHolder }
  /\ \A t \in Threads :
       /\ listMu = t <=> cpc[t] \in { "list1", "list2" }
       /\ cpc[t] = "del" => listMu # t
       /\ cpc[t] \in { "list1", "list2" } =>
            \A u \in Threads \ { t } : ~ ENABLED CLock1(u) /\ ~ ENABLED CLock2(u)

C14_Witness ==
  \E t, u \in Threads :
    /\ t # u
    /\ listMu = t /\ cpc[t] = "list2"
    /\ cpc[u] = "lock2"
    /\ deleted # EmptyBag

(***************************************************************************)
(* The bucket-init phase: runBucketsInit, lines 683-708, under runWrapper  *)
(* and main.  Interval reporting is off (-ri negative).                    *)
(***************************************************************************)
\* what svc.CreateBucket can answer: no error, or an error whose text holds this code
CreateAnswers(b) ==
  IF b \in bucketExists
  THEN { "BucketAlreadyOwnedByYou", "BucketAlreadyExists", "AccessDenied" }
  ELSE { "ok", "AccessDenied" }

\* a test that only lets the caller's own bucket through
Tolerated_owned(e) == e = "BucketAlreadyOwnedByYou"

\* lines 699-700: strings.Contains(err.Error(), s3.ErrCodeBucketAlreadyOwnedByYou) ||
\* strings.Contains(err.Error(), "BucketAlreadyExists")
Tolerated(e) == e = "BucketAlreadyOwnedByYou" \/ e = "BucketAlreadyExists"

initBench == << modes, object_count, object_count_flag, duration_secs, endtime, now,
                intervalNano, intervalCompletions, pc, errcnt, objnum, opStart, err, lat,
                barI, histVars, startCount, clearVars, statVars, ledgerVars, uuidVars, spawnVars >>

\* lines 687-691: claim the next bucket number
IClaim(t) ==
  /\ ~ exited
  /\ ipc[t] = "loop"
  /\ op_counter' = op_counter + 1
  /\ ibucket' = [ ibucket EXCEPT ![t] = op_counter + 1 ]
  /\ ipc' = [ ipc EXCEPT ![t] = IF op_counter + 1 >= bucket_count THEN "undo" ELSE "create" ]
  /\ UNCHANGED << initBench, phase, opc, os, mode, startNano, endNano, running_threads,
                  threadStats, completions, exited, bucketExists, ierrs, outputWritten >>

\* lines 689-690: give the claim back and leave the loop
IUndo(t) ==
  /\ ~ exited
  /\ ipc[t] = "undo"
  /\ op_counter' = op_counter - 1
  /\ ipc' = [ ipc EXCEPT ![t] = "finish" ]
  /\ UNCHANGED << initBench, phase, opc, os, mode, startNano, endNano, running_threads,
                  threadStats, completions, exited, bucketExists, ibucket, ierrs,
                  outputWritten >>

\* lines 692-704: CreateBucket returns; log.Fatalf ends the process on an error that is
\* not tolerated, otherwise the operation is recorded and the loop goes on
ICreate(t) ==
  /\ ~ exited
  /\ ipc[t] = "create"
  /\ \E e \in CreateAnswers(ibucket[t]) :
       LET rolled == ThreadStats_updateIntervals(threadStats[t], now)
           fatal == e # "ok" /\ ~ Tolerated(e)
       IN /\ ierrs' = ierrs (+) SetToBag({ e })
          /\ bucketExists' = IF e = "ok" THEN bucketExists \cup { ibucket[t] } ELSE bucketExists
          /\ exited' = fatal
          /\ threadStats' = [ threadStats EXCEPT ![t] =
                IF fatal THEN rolled ELSE addOp(rolled, 0, 0) ]
          /\ ipc' = [ ipc EXCEPT ![t] = IF fatal THEN "create" ELSE "loop" ]
  /\ UNCHANGED << initBench, phase, opc, os, mode, startNano, endNano, running_threads,
                  op_counter, completions, ibucket, outputWritten >>

\* line 706: stats.finish(thread_num)
IFinish(t) ==
  /\ ~ exited
  /\ ipc[t] = "finish"
  /\ threadStats' = [ threadStats EXCEPT ![t] =
        ThreadStats_finish(ThreadStats_updateIntervals(threadStats[t], now)) ]
  /\ completions' = completions + 1
  /\ endNano' = IF completions + 1 = threads THEN now ELSE endNano
  /\ ipc' = [ ipc EXCEPT ![t] = "dec" ]
  /\ UNCHANGED << initBench, phase, opc, os, mode, startNano, running_threads,
                  op_counter, exited, bucketExists, ibucket, ierrs, outputWritten >>

\* line 707: atomic.AddInt64(&running_threads, -1)
IDec(t) ==
  /\ ~ exited
  /\ ipc[t] = "dec"
  /\ running_threads' = running_threads - 1
  /\ ipc' = [ ipc EXCEPT ![t] = "done" ]
  /\ UNCHANGED << initBench, phase, opc, os, mode, startNano, endNano, threadStats,
                  op_counter, completions, exited, bucketExists, ibucket, ierrs,
                  outputWritten >>

\* lines 781-814 for r = 'i': reset the counters, makeStats, spawn the workers
IStart ==
  /\ ~ exited
  /\ opc = "start"
  /\ phase <= Len(modes)
  /\ modes[phase] = "i"
  /\ op_counter' = -1
  /\ running_threads' = threads
  /\ mode' = "BINIT"
  /\ startNano' = now
  /\ endNano' = 0
  /\ threadStats' = [ t \in Threads |-> makeThreadStats ]
  /\ completions' = 0
  /\ ipc' = [ t \in Threads |-> "loop" ]
  /\ ibucket' = [ t \in Threads |-> 0 ]
  /\ ierrs' = EmptyBag
  /\ os' = << >>
  /\ opc' = "wait"
  /\ UNCHANGED << initBench, phase, exited, bucketExists, outputWritten >>

\* lines 842-844: the poll on running_threads ends
IWaitDone ==
  /\ ~ exited
  /\ opc = "wait"
  /\ ~ (running_threads > 0)
  /\ opc' = "collect"
  /\ UNCHANGED << initBench, phase, os, mode, startNano, endNano, running_threads,
                  threadStats, op_counter, completions, initVars >>

\* lines 853-866: the rows of the phase
ICollect ==
  /\ ~ exited
  /\ opc = "collect"
  /\ LET tot == makeTotalStats
     IN os' = Drain(0) \o (IF tot.ok THEN << tot.o >> ELSE << >>)
  /\ phase' = phase + 1
  /\ opc' = IF phase + 1 > Len(modes) THEN "done" ELSE "start"
  /\ UNCHANGED << initBench, mode, startNano, endNano, running_threads,
                  threadStats, op_counter, completions, initVars >>

\* main, lines 1038-1073: after the last phase the CSV / JSON output is written
WriteOutput ==
  /\ ~ exited
  /\ opc = "done"
  /\ ~ outputWritten
  /\ outputWritten' = TRUE
  /\ UNCHANGED << initBench, phase, opc, os, mode, startNano, endNano, running_threads,
                  threadStats, op_counter, completions, exited, bucketExists, ipc, ibucket,
                  ierrs >>

\* -m ii -ri -1, whatever buckets exist when the process starts
BucketInitInit ==
  /\ modes = << "i", "i" >>
  /\ object_count = ObjCount
  /\ duration_secs = Duration
  /\ intervalNano = -1
  /\ BenchGlobals
  /\ ClearIdle
  /\ StatIdle
  /\ LedgerIdle
  /\ UuidIdle
  /\ SpawnIdle
  /\ BucketInitGlobals
  /\ bucketExists \in SUBSET Buckets

BucketInitNext ==
  \/ IStart
  \/ IWaitDone
  \/ ICollect
  \/ WriteOutput
  \/ \E t \in Threads : IClaim(t)
  \/ \E t \in Threads : IUndo(t)
  \/ \E t \in Threads : ICreate(t)
  \/ \E t \in Threads : IFinish(t)
  \/ \E t \in Threads : IDec(t)

BucketInitSpec == BucketInitInit /\ [][BucketInitNext]_vars

(* ---- properties of the bucket-init phase ---- *)
\* the number of CreateBucket calls of the running phase answered with code e
Answered(e) == CopiesIn(e, ierrs)

\* the operations recorded in the ledgers of the running phase
RecordedOps ==
  SumSeq([ k \in 1 .. Len(AllRecords) |-> Len(AllRecords[k].latNano) ])

\* C15: the process has been terminated exactly when a CreateBucket call has failed
\* with an error other than the two 'already exists' codes, at that very call: no
\* phase is started or completed afterwards, no output is written and nothing runs
\* any more; a call answered 'already exists' is recorded as an operation like a
\* successful one, and its worker goes on until every bucket number has been tried.
C15_FatalUnlessExists ==
  /\ [](/\ exited <=> Answered("AccessDenied") > 0
        /\ Answered("AccessDenied") <= 1
        /\ exited => (opc = "wait" /\ ~ outputWritten)
        /\ ~ exited =>
             RecordedOps = Answered("ok") + Answered("BucketAlreadyOwnedByYou")
                             + Answered("BucketAlreadyExists")
        /\ (~ exited /\ opc = "collect") => RecordedOps = bucket_count)
  /\ [][exited => UNCHANGED vars]_vars

C15_Witness ==
  /\ exited
  /\ Answered("BucketAlreadyExists") + Answered("BucketAlreadyOwnedByYou") > 0
  /\ RecordedOps > 0
  /\ phase = 2

(***************************************************************************)
(* IntervalStats.makeOutputStats, lines 111-162: the latency and            *)
(* throughput fields.  A float64 is num / den x 10^exp; a zero denominator *)
(* is the result of a division by 0.0 (NaN when the numerator is 0 as     *)
(* well, an infinity otherwise).                                           *)
(***************************************************************************)
\* float64(a) / float64(b), scaled by 10^e
FDiv(a, b, e) == [ num |-> a, den |-> b, exp |-> e ]

\* the literal float64(0)
FZero == FDiv(0, 1, 0)

\* the float64 is the number 0
FIsZero(x) == x.den # 0 /\ x.num = 0

\* the float64 is NaN
FIsNaN(x) == x.den = 0 /\ x.num = 0

\* the float64 is the number n x 10^e
FIs(x, n, e) == x.den # 0 /\ x.num = n * x.den /\ x.exp = e

\* a rounding that drops the fraction
Round_down(num, den) == num \div den

\* math.Round(num / den) for num >= 0, den > 0: halves are rounded away from zero
Round(num, den) ==
  LET t == num \div den
  IN IF 2 * (num - t * den) >= den THEN t + 1 ELSE t

\* int64(math.Round(0.pp*float64(ops)))-1, lines 130-139
PercentileIndex(pp, ops) == Round(pp * ops, 100) - 1

\* is.latNano[i] of Go: a fault when i is outside the slice
IndexFault(lats, i) == i < 0 \/ i >= Len(lats)

At(lats, i) == IF IndexFault(lats, i) THEN 0 ELSE lats[i + 1]

\* float64(nanos) / 1000000
Millis(nanos) == FDiv(nanos, 1, -6)

\* func (is *IntervalStats) makeOutputStats() OutputStats: the numeric fields, and
\* whether an index expression faults
IntervalStats_fields(lats, bytes, nanos) ==
  LET ops == Len(lats)
      P(pp) == IF ops > 0 THEN Millis(At(lats, PercentileIndex(pp, ops))) ELSE FZero
  IN [ Ops |-> ops,
       Seconds |-> FDiv(nanos, 1, -9),
       Mbps |-> FDiv(bytes, nanos * 1048576, 9),
       Iops |-> FDiv(ops, nanos, 9),
       MinLat |-> IF ops > 0 THEN Millis(At(lats, 0)) ELSE FZero,
       AvgLat |-> IF ops > 0 THEN FDiv(SumSeq(lats), ops, -6) ELSE FZero,
       Lat99 |-> P(99), Lat95 |-> P(95), Lat90 |-> P(90), Lat75 |-> P(75), Lat50 |-> P(50),
       MaxLat |-> IF ops > 0 THEN Millis(At(lats, ops - 1)) ELSE FZero,
       fault |-> ops > 0 /\ \E pp \in { 99, 95, 90, 75, 50 } :
                               IndexFault(lats, PercentileIndex(pp, ops)) ]

statRest == << benchVars, clearVars, initVars, ledgerVars, uuidVars, spawnVars >>

\* lines 442-452: one more latency sample is recorded in the record
AddSample ==
  /\ ostat = << >>
  /\ Len(sample) < MaxSamples
  /\ \E l \in 1 .. MaxLat : sample' = Append(sample, l)
  /\ UNCHANGED << sampleNano, ostat, statRest >>

\* lines 376-378: the samples are sorted and the record's output is computed
MakeOutput ==
  /\ ostat = << >>
  /\ ostat' = << IntervalStats_fields(SortAsc(sample), object_size * Len(sample), sampleNano) >>
  /\ UNCHANGED << sample, sampleNano, statRest >>

\* an empty record whose duration is the interval width, or, for a TOTAL record,
\* the difference of two wall-clock readings
StatInit ==
  /\ modes \in ModeSeqs
  /\ object_count = ObjCount
  /\ duration_secs = Duration
  /\ intervalNano = Width
  /\ BenchGlobals
  /\ ClearIdle /\ BucketInitIdle /\ LedgerIdle /\ UuidIdle /\ SpawnIdle
  /\ sample = << >>
  /\ sampleNano \in 0 .. Width
  /\ ostat = << >>

StatNext == AddSample \/ MakeOutput

StatSpec == StatInit /\ [][StatNext]_vars

(* ---- properties of IntervalStats.makeOutputStats ---- *)
\* the position, counted from 1, that rounding pp/100 x n to the nearest integer
\* (halves upwards) gives
NearestRank(pp, n) ==
  CHOOSE r \in 0 .. (n + 1) : 100 * r - pp * n > -50 /\ 100 * r - pp * n <= 50

\* the five percentiles, minimum and maximum of a non-empty record are the samples at
\* the stated positions of the sorted sequence, and no index is outside it
PercentilesRight(o, sorted) ==
  LET n == Len(sorted)
      Is(x, pp) == /\ NearestRank(pp, n) \in 1 .. n
                   /\ FIs(x, sorted[NearestRank(pp, n)], -6)
  IN /\ ~ o.fault
     /\ Is(o.Lat50, 50) /\ Is(o.Lat75, 75) /\ Is(o.Lat90, 90)
     /\ Is(o.Lat95, 95) /\ Is(o.Lat99, 99)
     /\ FIs(o.MinLat, sorted[1], -6)
     /\ FIs(o.MaxLat, sorted[n], -6)

\* every latency field of an empty record is 0 and nothing faults
EmptyLatenciesZero(o) ==
  /\ ~ o.fault
  /\ \A x \in { o.MinLat, o.AvgLat, o.Lat50, o.Lat75, o.Lat90, o.Lat95, o.Lat99, o.MaxLat } :
       FIsZero(x)

\* C16: for a record without samples every latency field is 0, IOPS is 0 and nothing
\* faults; for a record with N > 0 samples each percentile p is the sample at position
\* round(p/100 x N) - 1 of the sorted samples, inside the sequence, and min and max
\* are its first and last samples.
C16_FieldsOfSortedSample ==
  ostat # << >> =>
    LET o == ostat[1]
    IN IF Len(sample) = 0
       THEN EmptyLatenciesZero(o) /\ FIsZero(o.Iops)
       ELSE PercentilesRight(o, SortAsc(sample))

\* the part of C16 that does not depend on the record's duration
C16_LatencyFields ==
  ostat # << >> =>
    LET o == ostat[1]
    IN IF Len(sample) = 0
       THEN /\ EmptyLatenciesZero(o)
            /\ sampleNano # 0 => FIsZero(o.Iops)
            /\ sampleNano = 0 => FIsNaN(o.Iops)
       ELSE PercentilesRight(o, SortAsc(sample))

C16_LatencyWitness ==
  /\ ostat # << >>
  /\ Len(sample) = 5
  /\ FIs(ostat[1].Lat50, 2, -6)
  /\ FIs(ostat[1].Lat90, 3, -6)
  /\ FIs(ostat[1].MinLat, 1, -6)

(* ================================================================== *)
(* One worker's ledger, call by call: ThreadStats.updateIntervals with   *)
(* its loop taken one iteration at a time, Stats.updateIntervals,        *)
(* Stats.finish, ThreadStats.finish and Stats.addOp.                     *)
(* ================================================================== *)
ledgerRest == << benchVars, clearVars, initVars, statVars, uuidVars, spawnVars >>

\* line 291: the loop test, with t the value time.Now().UnixNano() returns
RollOn_upto(ts, t) == startNano + intervalNano * (ts.curInterval + 1) <= t

RollOn(ts, t) == startNano + intervalNano * (ts.curInterval + 1) < t

\* lines 292-302: one iteration of the loop
Roll(ts) ==
  [ curInterval |-> ts.curInterval + 1,
    intervals |-> Append(ts.intervals,
                         IntervalStats(FormatInt(ts.curInterval + 1), 0, 0, << >>)) ]

\* lines 418-437: the votes Stats.updateIntervals casts after the ledger came back
VotesCast(prev, new) ==
  IF prev < 0 THEN 0 ELSE IF prev < new THEN new - prev ELSE 0

\* len(latNano) summed over the records of a ledger
RECURSIVE OpsIn(_)
OpsIn(recs) ==
  IF recs = << >> THEN 0 ELSE Len(Head(recs).latNano) + OpsIn(Tail(recs))

\* what the ledger held when ThreadStats.finish first ran
Snapshot(ts, votes) ==
  [ len |-> Len(ts.intervals), ops |-> OpsIn(ts.intervals), votes |-> votes ]

\* time.Now() moves on
LTick ==
  /\ lnow < LedgerTime
  /\ lnow' = lnow + 1
  /\ UNCHANGED << lts, lpc, lprev, lvotes, lsnap, ledgerRest >>

\* line 415 (from Stats.updateIntervals, or from Stats.finish at line 460): read the
\* index and enter ThreadStats.updateIntervals
LCall ==
  /\ lpc = "idle"
  /\ \E caller \in { "update", "finish" } : lpc' = caller
  /\ lprev' = lts.curInterval
  /\ UNCHANGED << lts, lnow, lvotes, lsnap, ledgerRest >>

\* lines 291-303: the loop test holds, one more record
LLoop ==
  /\ lpc # "idle"
  /\ ~ (intervalNano < 0)
  /\ RollOn(lts, lnow)
  /\ Len(lts.intervals) < MaxIntervals
  /\ lts' = Roll(lts)
  /\ UNCHANGED << lnow, lpc, lprev, lvotes, lsnap, ledgerRest >>

\* lines 288-290 or the loop test failing at line 291, then lines 418-439; for
\* Stats.finish also line 461
LReturn ==
  /\ lpc # "idle"
  /\ intervalNano < 0 \/ ~ RollOn(lts, lnow)
  /\ lvotes' = lvotes + VotesCast(lprev, lts.curInterval)
  /\ IF lpc = "finish"
     THEN /\ lts' = ThreadStats_finish(lts)
          /\ lsnap' = IF lsnap = << >> THEN << Snapshot(lts, lvotes') >> ELSE lsnap
     ELSE UNCHANGED << lts, lsnap >>
  /\ lpc' = "idle"
  /\ UNCHANGED << lnow, lprev, ledgerRest >>

\* lines 307-309 called on their own
LTsFinish ==
  /\ lpc = "idle"
  /\ lts' = ThreadStats_finish(lts)
  /\ lsnap' = IF lsnap = << >> THEN << Snapshot(lts, lvotes) >> ELSE lsnap
  /\ UNCHANGED << lnow, lpc, lprev, lvotes, ledgerRest >>

\* lines 442-452
LAddOp ==
  /\ lpc = "idle"
  /\ OpsIn(lts.intervals) < MaxLedgerOps
  /\ lts' = addOp(lts, object_size, 1)
  /\ UNCHANGED << lnow, lpc, lprev, lvotes, lsnap, ledgerRest >>

\* line 783: the width is whatever -ri gives, here negative, zero or positive
LedgerInit ==
  /\ modes \in ModeSeqs
  /\ object_count = ObjCount
  /\ duration_secs = Duration
  /\ intervalNano \in { -1, 0, Width }
  /\ BenchGlobals
  /\ ClearIdle /\ BucketInitIdle /\ StatIdle /\ UuidIdle /\ SpawnIdle
  /\ LedgerGlobals

LedgerNext == LTick \/ LCall \/ LLoop \/ LReturn \/ LTsFinish \/ LAddOp

LedgerSpec == LedgerInit /\ [][LedgerNext]_vars

(* ---- properties of the ledger ---- *)
\* C17: at a width that is negative or exactly 0 the ledger never gets a second
\* record, its index stays where it was (0, or -1 once finished) and no barrier vote
\* is cast.
C17_NoIntervalAtNonPositiveWidth ==
  intervalNano <= 0 =>
    /\ Len(lts.intervals) = 1
    /\ lts.curInterval \in { 0, -1 }
    /\ lvotes = 0

\* the part of C17 about negative widths
C17_NegativeWidthDisables ==
  intervalNano < 0 =>
    /\ Len(lts.intervals) = 1
    /\ lts.curInterval \in { 0, -1 }
    /\ lvotes = 0

\* a ledger on which finish has never run, at a positive width
Rolling == intervalNano > 0 /\ lsnap = << >>

\* record j of the ledger is as the loop creates it
EmptyRecord(j) ==
  LET r == lts.intervals[j + 1]
  IN r.bytes = 0 /\ r.slowdowns = 0 /\ r.latNano = << >>

\* the ledger holds one record per index up to the current one, record j labelled j
LedgerShape ==
  /\ Len(lts.intervals) = lts.curInterval + 1
  /\ \A j \in 0 .. lts.curInterval : lts.intervals[j + 1].name = FormatInt(j)

\* ThreadStats.updateIntervals hands back the ledger lts at time lnow, entered at lprev
ReturnsRolled ==
  LET k == lts.curInterval
  IN /\ k >= lprev
     /\ startNano + intervalNano * (k + 1) >= lnow
     /\ k > lprev => startNano + intervalNano * k < lnow
     /\ LedgerShape
     /\ \A j \in (lprev + 1) .. k : EmptyRecord(j)

\* C19: on a never-finished ledger at positive width, updateIntervals returns with the
\* index at the smallest k >= the index it was entered with such that
\* start + width x (k+1) >= now; the index never decreases, the ledger holds exactly
\* k+1 records, record j is labelled j, and the records the call created are empty.
C19_RollsToSmallestIndex ==
  /\ [](Rolling => LedgerShape)
  /\ [][ /\ (Rolling /\ lpc # "idle" /\ lpc' = "idle") => ReturnsRolled
         /\ (Rolling /\ lsnap' = << >>) => lts'.curInterval >= lts.curInterval ]_vars

\* one call rolled a ledger holding an operation over two boundaries
C19_Witness ==
  /\ Rolling
  /\ lpc = "idle"
  /\ lprev = 0
  /\ lts.curInterval = 2
  /\ lnow = 3
  /\ Len(lts.intervals[1].latNano) = 1

\* what the current ledger holds, in the form of Snapshot
Holds == [ len |-> Len(lts.intervals), ops |-> OpsIn(lts.intervals), votes |-> lvotes ]

\* C20: once ThreadStats.finish has run, the index stays at -1 whatever is called
\* later, no record is appended, no operation is recorded and no barrier vote is cast.
C20_FinishedStaysFinished ==
  lsnap # << >> => lts.curInterval = -1 /\ Holds = lsnap[1]

\* the part of C20 that holds at every width: a call that finds the index at -1
\* casts no vote, and while the index is at -1 a repeated finish and addOp leave the
\* ledger as it is
C20_SentinelCastsNoVote ==
  [][ /\ (lpc # "idle" /\ lprev < 0) => lvotes' = lvotes
      /\ (lpc = "idle" /\ lpc' = "idle" /\ lts.curInterval = -1) => lts' = lts ]_vars

\* the part of C20 about a disabled interval width
C20_FinishedStaysAtNegativeWidth ==
  (intervalNano < 0 /\ lsnap # << >>) => lts.curInterval = -1 /\ Holds = lsnap[1]

(* ================================================================== *)
(* uuid.go: ThreadSafeUUID.generateUUIDv4 called by the workers of one   *)
(* phase on the generator runWrapper creates at line 794.                *)
(* ================================================================== *)
uuidRest == << benchVars, clearVars, initVars, statVars, ledgerVars, spawnVars >>

\* the seeds -sd is given
Seeds == { 0, 7 }

\* uuid.go line 29: what the n-th call (counted from 0) of tsr.rand.Intn(256) returns
\* on a generator made from seed s -- a fixed function of s and n with values in
\* 0 .. 255, here one that returns 256 different values in a row
Intn256(s, n) == (s + 89 * n) % 256

\* uuid.go line 26: sync.Mutex.Lock goes through when nobody holds the mutex
Lockable_any(holder) == TRUE

Lockable(holder) == holder = NoHolder

\* uuid.go lines 34-35: (b & 0x0f) | 0x40 at index 6 and (b & 0x3f) | 0x80 at index 8
SetBits(b) ==
  [ b EXCEPT ![7] = (@ % 16) + 64, ![9] = (@ % 64) + 128 ]

\* uuid.go lines 23-24: a worker calls generateUUIDv4
UCall(t) ==
  /\ upc[t] = "idle"
  /\ calls[t] < MaxIds
  /\ calls' = [ calls EXCEPT ![t] = @ + 1 ]
  /\ buf' = [ buf EXCEPT ![t] = ZeroBuf ]
  /\ upc' = [ upc EXCEPT ![t] = "lock" ]
  /\ UNCHANGED << seed, mu, drawn, ui, rank, locks, issuedIds, uuidRest >>

\* uuid.go line 26
ULock(t) ==
  /\ upc[t] = "lock"
  /\ Lockable(mu)
  /\ mu' = t
  /\ locks' = locks + 1
  /\ rank' = [ rank EXCEPT ![t] = locks + 1 ]
  /\ ui' = [ ui EXCEPT ![t] = 0 ]
  /\ upc' = [ upc EXCEPT ![t] = "draw" ]
  /\ UNCHANGED << seed, drawn, buf, calls, issuedIds, uuidRest >>

\* uuid.go lines 28-30: one iteration of the loop
UDraw(t) ==
  /\ upc[t] = "draw"
  /\ ui[t] < BufLen
  /\ buf' = [ buf EXCEPT ![t][ui[t] + 1] = Intn256(seed, drawn) ]
  /\ drawn' = drawn + 1
  /\ ui' = [ ui EXCEPT ![t] = @ + 1 ]
  /\ UNCHANGED << seed, mu, upc, rank, locks, calls, issuedIds, uuidRest >>

\* uuid.go line 31, after the loop has ended
UUnlock(t) ==
  /\ upc[t] = "draw"
  /\ ~ (ui[t] < BufLen)
  /\ mu' = NoHolder
  /\ upc' = [ upc EXCEPT ![t] = "bits" ]
  /\ UNCHANGED << seed, drawn, ui, buf, rank, locks, calls, issuedIds, uuidRest >>

\* uuid.go lines 34-38
UReturn(t) ==
  /\ upc[t] = "bits"
  /\ issuedIds' = issuedIds \cup
        { [ by |-> t, rank |-> rank[t], id |-> SetBits(buf[t]) ] }
  /\ upc' = [ upc EXCEPT ![t] = "idle" ]
  /\ UNCHANGED << seed, mu, drawn, ui, buf, rank, locks, calls, uuidRest >>

\* line 794 of hsbench.go: one generator per phase, made from the seed
UuidInit ==
  /\ modes \in ModeSeqs
  /\ object_count = ObjCount
  /\ duration_secs = Duration
  /\ intervalNano = -1
  /\ BenchGlobals
  /\ ClearIdle /\ BucketInitIdle /\ StatIdle /\ LedgerIdle /\ SpawnIdle
  /\ seed \in Seeds
  /\ UuidGlobals

UuidNext == \E t \in Threads : UCall(t) \/ ULock(t) \/ UDraw(t) \/ UUnlock(t) \/ UReturn(t)

UuidSpec == UuidInit /\ [][UuidNext]_vars

(* ---- properties of the identifier generator ---- *)
\* the k-th identifier (k from 1) one caller alone gets from a generator made from s
NthUUID(s, k) ==
  SetBits([ j \in 1 .. BufLen |-> Intn256(s, BufLen * (k - 1) + (j - 1)) ])

\* C18: the bytes a caller has drawn are consecutive values of the generator, those
\* of the block its lock acquisition gives it, and every identifier handed out to
\* the k-th caller to take the lock is the k-th identifier of the sequence one
\* caller alone gets for the seed.
C18_KthLockerGetsKthUUID ==
  /\ \A t \in Threads :
        upc[t] = "draw" =>
          \A j \in 1 .. ui[t] : buf[t][j] = Intn256(seed, BufLen * (rank[t] - 1) + (j - 1))
  /\ \A r \in issuedIds : r.id = NthUUID(seed, r.rank)

\* worker 1 took the lock first, worker 0 second; worker 0 is drawing its next
\* identifier while worker 1 waits for the lock
C18_Witness ==
  /\ \E r \in issuedIds : r.by = 1 /\ r.rank = 1
  /\ \E r \in issuedIds : r.by = 0 /\ r.rank = 2
  /\ upc[0] = "draw" /\ ui[0] = 8 /\ rank[0] = 3
  /\ upc[1] = "lock"

(* ================================================================== *)
(* Properties of the put / get / delete phases and of runWrapper        *)
(* ================================================================== *)
\* C21: in every phase the end time is written at most once, and it has been written
\* exactly when the finished-worker counter has reached the worker count; the write
\* is made by the step of Stats.finish that brings the counter to the worker count,
\* with the time of that step, while the orchestrator still waits with
\* running_threads above 0; so the end time is written when the orchestrator's wait
\* ends and whenever makeTotalStats answers ok.
C21_EndNanoLatchedOnce ==
  /\ [](/\ endWrites <= 1
        /\ endWrites = 1 <=> completions = threads
        /\ opc = "collect" => endWrites = 1
        /\ makeTotalStats.ok => endWrites = 1)
  /\ [][opc # "start" =>
          /\ endNano' # endNano => endWrites' = endWrites + 1
          /\ endWrites' # endWrites =>
               /\ endWrites' = endWrites + 1
               /\ completions = threads - 1 /\ completions' = threads
               /\ endNano' = now
               /\ opc = "wait" /\ running_threads > 0
               /\ \E t \in Threads : pc[t] \in { "finish", "fin" } /\ pc'[t] = "dec"
     ]_vars

\* the orchestrator's wait has ended on a phase whose last worker finished at time 2
C21_Witness ==
  /\ opc = "collect"
  /\ running_threads = 0
  /\ endWrites = 1
  /\ endNano = 2
  /\ makeTotalStats.ok
  /\ histOps > 0

\* put phases that follow a put phase: -m pgp and -m pp, with the duration set (the
\* object count may be left unset) and interval reporting on
PinModeSeqs == { << "p", "g", "p" >>, << "p", "p" >> }

PinInit ==
  /\ modes \in PinModeSeqs
  /\ object_count \in { -1, ObjCount }
  /\ duration_secs = Duration
  /\ intervalNano = Width
  /\ InitGlobals

PinSpec == PinInit /\ [][Next]_vars

\* the phase whose workers are running or whose output is being collected is a put
InPut == opc \in { "wait", "collect" } /\ modes[phase] = "p"

\* C22: the pin flag is set only with a pinned count >= 0; runWrapper starts a put
\* phase that finds the flag set with the object count back at -1 and the flag
\* cleared, and the flag stays cleared until that phase's workers are done; no step
\* of a phase other than a put changes the object count or the flag; and an object
\* count >= 0 without the flag (the user's) is changed by no step at all.
C22_PinClearedBeforeNextPut ==
  /\ [](/\ object_count_flag => object_count >= 0
        /\ (InPut /\ opc = "wait") => ~ object_count_flag
        /\ (InPut /\ opc = "wait") => object_count = startCount)
  /\ [][ /\ (opc = "start" /\ opc' = "wait" /\ modes[phase] = "p" /\ object_count_flag)
              => (object_count' = -1 /\ ~ object_count_flag')
         /\ (opc # "done" /\ modes[phase] # "p")
              => (object_count' = object_count /\ object_count_flag' = object_count_flag)
         /\ (object_count >= 0 /\ ~ object_count_flag)
              => (object_count' = object_count /\ ~ object_count_flag')
     ]_vars

\* the third phase of -m pgp, a put phase, runs with the object count unlimited again
C22_Witness ==
  /\ modes = << "p", "g", "p" >>
  /\ phase = 3 /\ opc = "wait"
  /\ object_count = -1 /\ ~ object_count_flag
  /\ histOps >= 2

\* slowdowns, samples and bytes of a ledger, summed over its records
LedgerSums(ts) ==
  [ slow |-> SumSeq([ j \in 1 .. Len(ts.intervals) |-> ts.intervals[j].slowdowns ]),
    ops |-> SumSeq([ j \in 1 .. Len(ts.intervals) |-> Len(ts.intervals[j].latNano) ]),
    bytes |-> SumSeq([ j \in 1 .. Len(ts.intervals) |-> ts.intervals[j].bytes ]) ]

\* this step records the outcome of worker t's operation
Records(t) == pc[t] \in { "send", "record" } /\ pc'[t] \in { "loop", "finish" }

\* the operation whose outcome this step records has failed
Failed(t) == IF pc[t] = "record" THEN err[t] ELSE fails' > fails

\* record j (from 1) of worker t's ledger before this step, empty if it did not exist
Before(t, j) ==
  IF j <= Len(threadStats[t].intervals) THEN threadStats[t].intervals[j]
  ELSE IntervalStats(FormatInt(j - 1), 0, 0, << >>)

\* C23: the step that records a failed operation adds one slowdown to the record of
\* the worker's current interval and neither a sample nor bytes; the step that
\* records a successful one adds one sample and object_size bytes to it and no
\* slowdown; both leave every other record as it was, and no other step of a phase
\* changes the sums of a ledger.  So once all workers have finished the TOTAL
\* record's Slowdowns is the number of failed operations and its Ops the number of
\* successful ones, and so is the TOTAL row runWrapper returns.
C23_OneSlowdownPerFailure ==
  /\ [][opc # "start" =>
          \A t \in Threads :
            IF Records(t)
            THEN LET cur == threadStats'[t].curInterval
                     new == threadStats'[t].intervals[cur + 1]
                     old == Before(t, cur + 1)
                     f == IF Failed(t) THEN 1 ELSE 0
                 IN /\ cur >= 0
                    /\ new.slowdowns = old.slowdowns + f
                    /\ Len(new.latNano) = Len(old.latNano) + (1 - f)
                    /\ new.bytes = old.bytes + (1 - f) * object_size
                    /\ \A j \in 1 .. Len(threadStats'[t].intervals) :
                         j # cur + 1 => threadStats'[t].intervals[j] = Before(t, j)
            ELSE LedgerSums(threadStats'[t]) = LedgerSums(threadStats[t])
     ]_vars
  /\ [](completions = threads =>
          /\ makeTotalStats.o.Slowdowns = fails
          /\ makeTotalStats.o.Ops = histOps
          /\ mode # "PUT" => makeTotalStats.o.Ops = BagCardinality(requested) - fails)
  /\ [](Collected =>
          /\ os[Len(os)].Slowdowns = fails
          /\ os[Len(os)].Ops = histOps)

\* a phase has ended with two failed and two successful operations, one worker
\* having recorded a failure in a later interval than its first
C23_Witness ==
  /\ Collected
  /\ fails = 2 /\ histOps = 2
  /\ os[Len(os)].Slowdowns = 2 /\ os[Len(os)].Ops = 2
  /\ \E t \in Threads :
       /\ Len(threadStats[t].intervals) > 1
       /\ threadStats[t].intervals[2].slowdowns = 1

(* ---- a failing list call in the bucket-clear phase ---- *)
\* in this step a list call of worker t returns an error
ListFails(t) ==
  /\ cpc[t] \in { "list1", "list2" }
  /\ cpc'[t] # cpc[t]
  /\ listErrs' = listErrs + 1

\* C24: when a list call of a worker fails, on the first or on a later page of a
\* bucket, the worker gives the lock back and goes straight to Stats.finish and the
\* decrement of running_threads, sending no further list or delete call in the
\* phase; the process keeps running.
C24_ListErrorEndsWorker ==
  [][\A t \in Threads :
       ListFails(t) =>
         /\ listMu' = NoHolder
         /\ cpc'[t] = "finish"
         /\ ~ exited']_vars

\* the part of C24 that holds: a failing list call gives the lock back and the
\* process keeps running; on the first page of a bucket it ends the worker's loop, on
\* a later page it ends the work on that bucket only
C24_ListErrorEndsBucket ==
  [][\A t \in Threads :
       ListFails(t) =>
         /\ listMu' = NoHolder
         /\ ~ exited'
         /\ cpc[t] = "list1" => cpc'[t] = "finish"
         /\ cpc[t] = "list2" =>
              /\ cbucket'[t] = cbucket[t] + 1
              /\ cpc'[t] = IF cbucket'[t] < bucket_count THEN "lock1" ELSE "finish"
    ]_vars

(* ---- a phase long enough for two intervals to close ---- *)
\* the clock of a phase that lasts up to LongTime ticks
LongTick ==
  /\ opc = "wait"
  /\ \E t \in Threads : pc[t] # "done"
  /\ now < startNano + LongTime
  /\ now' = now + 1
  /\ UNCHANGED << orchVars, histVars, op_counter, running_threads, endNano, threadStats,
                  intervalCompletions, completions, pc, errcnt, objnum, opStart, err, lat, barI >>
  /\ UNCHANGED subVars

\* -m g or -m d with -n, -d and -ri set
LongInit ==
  /\ modes \in { << "g" >>, << "d" >> }
  /\ object_count = ObjCount
  /\ duration_secs = Duration
  /\ intervalNano = Width
  /\ InitGlobals

LongNext ==
  \/ Start
  \/ WaitDone
  \/ Collect
  \/ LongTick
  \/ \E t \in Threads : Expire(t)
  \/ \E t \in Threads : Claim(t)
  \/ \E t \in Threads : Undo(t)
  \/ \E t \in Threads : Send(t)
  \/ \E t \in Threads : Vote(t)
  \/ \E t \in Threads : Emit(t)
  \/ \E t \in Threads : Record(t)
  \/ \E t \in Threads : Finish(t)
  \/ \E t \in Threads : Fin(t)
  \/ \E t \in Threads : Dec(t)

LongSpec == LongInit /\ [][LongNext]_vars

\* the interval indices a phase of LongTime ticks can reach
LongIdx == 0 .. (LongTime + 1)

\* C25: the sequence runWrapper returns ends with its only TOTAL row; before it come
\* the aggregates of the closed intervals, row k being that of interval k-1, so that
\* an interval has a row exactly when its counter reached the worker count; and the
\* rows are, one for one, the aggregates the barrier logged.
C25_RowsAreClosedPrefixThenTotal ==
  Collected =>
    LET n == Len(os) - 1
    IN /\ n >= 0
       /\ os[n + 1].IntervalName = "TOTAL"
       /\ os[n + 1] = makeTotalStats.o
       /\ \A k \in 1 .. n :
            /\ os[k].IntervalName = FormatInt(k - 1)
            /\ os[k] = makeOutputStats(k - 1).o
       /\ \A i \in LongIdx : (intervalNano >= 0 /\ Closed(i)) <=> i < n
       /\ \A i \in LongIdx : EmitCount(i) = (IF i < n THEN 1 ELSE 0)
       /\ Len(logged) = n
       /\ \A k \in 1 .. n : \E j \in 1 .. n : logged[j] = os[k]

\* two intervals closed and logged in turn, and operations recorded in an interval
\* that never closed
C25_Witness ==
  /\ Collected
  /\ Len(os) = 3
  /\ os[1].Ops > 0
  /\ logged[1].IntervalName = "0" /\ logged[2].IntervalName = "1"
  /\ os[3].Ops > os[1].Ops + os[2].Ops

\* the workers that have cast their vote for interval i
Voters(i) == { t \in Threads : Voted(t, i) }

\* C27: every interval's counter lies between 0 and the worker count and counts each
\* worker that has voted for the interval once; a later interval never has a higher
\* counter than an earlier one, so the intervals with a full counter are 0 .. k-1 for
\* some k.
C27_CountersBoundedAndOrdered ==
  /\ \A i \in DOMAIN intervalCompletions : i \in LongIdx
  /\ \A i \in LongIdx :
       /\ LoadCount(i) >= 0 /\ LoadCount(i) <= threads
       /\ LoadCount(i) = Cardinality(Voters(i))
       /\ LoadCount(i) >= LoadCount(i + 1)
       /\ Voters(i + 1) \subseteq Voters(i)
       /\ Closed(i) => \A j \in 0 .. i : Closed(j)

\* interval 0 is closed and one worker has gone on to vote for interval 1 alone
C27_Witness ==
  /\ opc = "wait"
  /\ LoadCount(0) = threads
  /\ LoadCount(1) = 1
  /\ Cardinality(Voters(1)) = 1

(* ================================================================== *)
(* runWrapper with its spawn loop taken one `go` statement at a time:    *)
(* a worker runs from the moment it is spawned, while the loop of lines  *)
(* 818-820 (830-832, 836-838) is still spawning the others.              *)
(* ================================================================== *)
spawnRest == << clearVars, initVars, statVars, ledgerVars, uuidVars >>

\* lines 781-794 and makeStats: the counters are reset, the pin is cleared, the
\* phase's Stats are made; no worker of the phase exists yet
SReset ==
  /\ opc = "start"
  /\ phase <= Len(modes)
  /\ now' = 0
  /\ op_counter' = -1
  /\ running_threads' = threads
  /\ endtime' = now' + duration_secs
  /\ IF ClearsPin(modes[phase])
     THEN object_count' = -1 /\ object_count_flag' = FALSE
     ELSE UNCHANGED << object_count, object_count_flag >>
  /\ startCount' = object_count'
  /\ mode' = ModeName(modes[phase])
  /\ startNano' = now'
  /\ endNano' = 0
  /\ endWrites' = 0
  /\ threadStats' = [ t \in Threads |-> makeThreadStats ]
  /\ intervalCompletions' = << >>
  /\ completions' = 0
  /\ pc' = [ t \in Threads |-> "idle" ]
  /\ errcnt' = [ t \in Threads |-> 0 ]
  /\ logged' = << >>
  /\ requested' = EmptyBag
  /\ written' = IF modes[phase] = "p" THEN { } ELSE written
  /\ streak' = [ t \in Threads |-> 0 ]
  /\ strikes' = [ t \in Threads |-> 0 ]
  /\ histOps' = 0 /\ histBytes' = 0 /\ histSlow' = 0 /\ histLat' = EmptyBag
  /\ stopErr' = [ t \in Threads |-> FALSE ]
  /\ issued' = 0 /\ fails' = 0
  /\ finishCalls' = [ t \in Threads |-> 0 ]
  /\ rtDecs' = [ t \in Threads |-> 0 ]
  /\ os' = << >>
  /\ opc' = "spawn"
  /\ spawned' = 0
  /\ UNCHANGED << modes, phase, duration_secs, intervalNano,
                  objnum, opStart, err, lat, barI >>
  /\ UNCHANGED spawnRest

\* lines 818-820, 830-832, 836-838: go runUpload(n, ...) for the next n
SSpawn ==
  /\ opc = "spawn"
  /\ spawned < threads
  /\ pc' = [ pc EXCEPT ![spawned] = "loop" ]
  /\ spawned' = spawned + 1
  /\ opc' = IF spawned + 1 < threads THEN "spawn" ELSE "wait"
  /\ UNCHANGED << modes, phase, os, object_count, object_count_flag, duration_secs,
                  endtime, mode, startNano, intervalNano, startCount, histVars,
                  op_counter, running_threads, now, endNano, threadStats,
                  intervalCompletions, completions, errcnt, objnum, opStart, err, lat,
                  barI >>
  /\ UNCHANGED spawnRest

\* -m pg with -n, -d and -ri set
SpawnInit ==
  /\ modes = << "p", "g" >>
  /\ object_count = ObjCount
  /\ duration_secs = Duration
  /\ intervalNano = Width
  /\ InitGlobals

SpawnNext ==
  \/ SReset
  \/ SSpawn
  \/ WaitDone
  \/ Collect
  \/ Tick
  \/ \E t \in Threads : Expire(t)
  \/ \E t \in Threads : Claim(t)
  \/ \E t \in Threads : Undo(t)
  \/ \E t \in Threads : Send(t)
  \/ \E t \in Threads : Vote(t)
  \/ \E t \in Threads : Emit(t)
  \/ \E t \in Threads : Record(t)
  \/ \E t \in Threads : Finish(t)
  \/ \E t \in Threads : Fin(t)
  \/ \E t \in Threads : Dec(t)

SpawnSpec == SpawnInit /\ [][SpawnNext]_vars

(* ---- properties of the phase sequence ---- *)
\* no goroutine of a worker exists or all have taken their last step
NobodyRuns == \A t \in Threads : pc[t] \in { "idle", "done" }

\* each worker has decremented running_threads at most once, and exactly the workers
\* that are done have; the phases' modes follow the mode sequence
OncePerWorker ==
  /\ \A t \in Threads : rtDecs[t] <= 1 /\ (pc[t] = "done" <=> rtDecs[t] = 1)
  /\ \A t \in Threads : finishCalls[t] <= 1
  /\ opc \in { "spawn", "wait", "collect" } => mode = ModeName(modes[phase])
  /\ opc = "collect" => \A t \in Threads : pc[t] = "done"
  /\ (opc = "start" /\ phase > 1) => \A t \in Threads : pc[t] = "done"

\* C26 as stated: whenever runWrapper is about to spawn a worker, op_counter is -1
\* and running_threads is the worker count; every worker decrements running_threads
\* once, as its last step, and a phase begins only when the workers of the phase
\* before are done.
C26_CountersFreshAtEverySpawn ==
  /\ opc = "spawn" => (op_counter = -1 /\ running_threads = threads)
  /\ OncePerWorker

\* C26 amended: op_counter is -1 and running_threads the worker count when runWrapper
\* spawns the first worker of a phase, and no worker exists then; while it spawns
\* the others, the workers already spawned -- and only they -- may have moved both
\* counters: running_threads is the worker count less the workers that are done,
\* op_counter is at least -1.  Workers 0 .. threads-1 are spawned once each, each
\* decrements running_threads once, as its last step; phases follow the mode
\* sequence one by one; and while no worker runs nothing but runWrapper's reset
\* changes the counters or the Stats.
C26_OnePhaseAtATime ==
  /\ [](/\ (opc = "spawn" /\ spawned = 0) =>
             (op_counter = -1 /\ running_threads = threads /\ NobodyRuns)
        /\ opc \in { "spawn", "wait" } =>
             /\ running_threads = threads - Cardinality({ t \in Threads : pc[t] = "done" })
             /\ op_counter >= -1
        /\ opc = "spawn" =>
             \A t \in Threads : pc[t] = "idle" <=> t >= spawned
        /\ opc = "wait" => (spawned = threads /\ \A t \in Threads : pc[t] # "idle")
        /\ OncePerWorker)
  /\ [][ /\ phase' # phase => (phase' = phase + 1 /\ opc = "collect")
         /\ (opc = "start" /\ opc' # "start") => NobodyRuns
         /\ \A t \in Threads : (pc[t] = "done" /\ opc # "start") => pc'[t] = "done"
         /\ (NobodyRuns /\ opc # "start") =>
              UNCHANGED << op_counter, running_threads, threadStats,
                           intervalCompletions, completions, endNano >>
     ]_vars

\* in the second phase worker 0 has run to its end before worker 1 is spawned
C26_Witness ==
  /\ phase = 2 /\ opc = "spawn" /\ spawned = 1
  /\ pc[0] = "done" /\ pc[1] = "idle"
  /\ running_threads = threads - 1
  /\ op_counter >= 0

====
